---- MODULE Spec2Model ----
\* User lifecycle service (internal/service), user entity (internal/models),
\* Postgres repository (internal/repository) and the RabbitMQ notification
\* publisher (internal/notification) of user-microservice, as a state machine.
\* Every concurrent caller of the service is a call slot; every step of a call
\* is one repository round trip together with the local code around it.
EXTENDS Integers, Sequences, FiniteSets, TLC

\* ---------------------------------------------------------------- bounds
MaxCalls == 2
MaxOps == 2
MaxClock == 2
MaxMsgs == 2
MaxAcks == 3

Calls == 1..MaxCalls

\* ---------------------------------------------------------------- inputs
FirstNames == {"", "Alice"}
LastNames == {"", "Bob"}
Nicknames == {"", "AB123", "CD456"}
Passwords == {"", "short", "supersecurepassword", "correcthorsebattery"}
Emails == {"", "alice@bob", "alice@bob.com", "carol@d.io"}
Countries == {"", "UK"}
IdInputs == {"", "u0", "u1"}
Pages == {0, 1, 2}
PageSizes == {0, 1, 101}
CountryFilters == {"", "uk", "U"}

\* ---------------------------------------------------------------- strings
LowerLetters == {"a","b","c","d","e","f","g","h","i","j","k","l","m",
                 "n","o","p","q","r","s","t","u","v","w","x","y","z"}
UpperLetters == {"A","B","C","D","E","F","G","H","I","J","K","L","M",
                 "N","O","P","Q","R","S","T","U","V","W","X","Y","Z"}
Digits == {"0","1","2","3","4","5","6","7","8","9"}
AlphaClass == LowerLetters \cup UpperLetters
LocalClass == AlphaClass \cup Digits \cup {".", "_", "%", "+", "-"}
DomainClass == AlphaClass \cup Digits \cup {".", "-"}

CharAt(s, i) == SubSeq(s, i, i)

AllIn(s, lo, hi, class) == \A k \in lo..hi : CharAt(s, k) \in class

\* ^[a-zA-Z0-9._%+-]+@[a-zA-Z0-9.-]+\.[a-zA-Z]{2,}$
EmailRegexMatch(s) ==
    \E i \in 2..Len(s) : \E j \in (i + 2)..Len(s) :
        /\ CharAt(s, i) = "@"
        /\ CharAt(s, j) = "."
        /\ AllIn(s, 1, i - 1, LocalClass)
        /\ AllIn(s, i + 1, j - 1, DomainClass)
        /\ Len(s) - j >= 2
        /\ AllIn(s, j + 1, Len(s), AlphaClass)

\* ---------------------------------------------------------------- errors
\* An error value is its chain, outermost wrapper first; nil is the empty
\* chain.  Each link carries the identity of the sentinel it is (or "" for an
\* anonymous errors.New / errors.Wrap link) and its message text.
NoErr == <<>>

NewError(msg) == <<[sentinel |-> "", msg |-> msg]>>

Sentinel(name, msg) == <<[sentinel |-> name, msg |-> msg]>>

\* a wrapper that keeps the text of the cause and drops the cause itself
Wrap_Opaque(err, msg) == IF err = NoErr THEN NoErr ELSE NewError(msg)

Wrap(err, msg) == <<[sentinel |-> "", msg |-> msg]>> \o err

Is(err, target) ==
    \E i \in 1..Len(err) : err[i].sentinel # "" /\ err[i].sentinel = target[1].sentinel

ErrInvalidInput == Sentinel("service.ErrInvalidInput", "invalid input data")
ErrEmailAlreadyExists == Sentinel("service.ErrEmailAlreadyExists", "email already registered")
ErrNicknameAlreadyExists == Sentinel("service.ErrNicknameAlreadyExists", "nickname already registered")
ErrUserNotFound == Sentinel("repository.ErrUserNotFound", "user not found")

\* errors of the database driver
ErrUniqueViolation == NewError("pq: duplicate key value violates unique constraint")
ErrDriver == NewError("driver: bad connection")

StatusBadRequest == 400
StatusConflict == 409
StatusNotFound == 404
StatusInternalServerError == 500

respondWithError(code, err) ==
    IF Is(err, ErrInvalidInput) THEN StatusBadRequest
    ELSE IF Is(err, ErrEmailAlreadyExists) \/ Is(err, ErrNicknameAlreadyExists)
         THEN StatusConflict
    ELSE IF Is(err, ErrUserNotFound) THEN StatusNotFound
    ELSE code

\* ---------------------------------------------------------------- entity
\* bcrypt.GenerateFromPassword: a non-empty string that is never the plaintext
BcryptPrefix == "$2a$10$"

\* a HashPassword that stores the password as given
HashPassword_Plain(newPassword) == newPassword

HashPassword(newPassword) == BcryptPrefix \o newPassword

ValidateEmail(email) ==
    IF EmailRegexMatch(email) THEN NoErr ELSE NewError("invalid email format")

ValidatePassword(password) ==
    IF password = "" THEN NewError("password cannot be empty")
    ELSE IF Len(password) < 8
         THEN NewError("password must be at least 8 characters long")
    ELSE NoErr

Validate(u) ==
    IF u.first_name = "" THEN NewError("first name is required")
    ELSE IF u.last_name = "" THEN NewError("last name is required")
    ELSE IF u.nickname = "" THEN NewError("nickname is required")
    ELSE IF u.country = "" THEN NewError("country is required")
    ELSE IF u.email = "" THEN NewError("email is required")
    ELSE IF ValidateEmail(u.email) # NoErr THEN ValidateEmail(u.email)
    ELSE ValidatePassword(u.password)

\* the zero value of models.User; time 0 is the zero time.Time
ZeroUser ==
    [id |-> "", first_name |-> "", last_name |-> "", nickname |-> "",
     password |-> "", email |-> "", country |-> "",
     created_at |-> 0, updated_at |-> 0]

\* a SanitizeForOutput that leaves the password in place
SanitizeForOutput_Keep(u) == u

SanitizeForOutput(u) == [u EXCEPT !.password = ""]

\* NewUser with the uuid and the time it draws passed in
NewUser(firstName, lastName, nickname, password, email, country, uuid, now) ==
    LET tempUser == [ZeroUser EXCEPT !.first_name = firstName,
                                     !.last_name = lastName,
                                     !.nickname = nickname,
                                     !.password = password,
                                     !.email = email,
                                     !.country = country]
    IN  IF Validate(tempUser) # NoErr
        THEN [user |-> {}, err |-> Wrap(Validate(tempUser), "invalid input data")]
        ELSE [user |-> {[tempUser EXCEPT !.password = HashPassword(password),
                                         !.id = uuid,
                                         !.created_at = now,
                                         !.updated_at = now]},
              err |-> NoErr]

Deref(p) == CHOOSE u \in p : TRUE

\* User.Update: fields supplied empty are left alone; now is time.Now()
Update(u, firstName, lastName, nickname, email, country, now) ==
    LET u1 == IF firstName # "" THEN [u EXCEPT !.first_name = firstName] ELSE u
        u2 == IF lastName # "" THEN [u1 EXCEPT !.last_name = lastName] ELSE u1
        u3 == IF nickname # "" THEN [u2 EXCEPT !.nickname = nickname] ELSE u2
        u4 == IF email # "" THEN [u3 EXCEPT !.email = email] ELSE u3
        u5 == IF country # "" THEN [u4 EXCEPT !.country = country] ELSE u4
    IN  IF email # "" /\ ValidateEmail(email) # NoErr
        THEN [user |-> u3, err |-> ValidateEmail(email)]
        ELSE [user |-> [u5 EXCEPT !.updated_at = now], err |-> NoErr]

\* User.UpdatePassword
UpdatePassword(u, newPassword, now) ==
    IF ValidatePassword(newPassword) # NoErr
    THEN [user |-> u, err |-> ValidatePassword(newPassword)]
    ELSE [user |-> [u EXCEPT !.password = HashPassword(newPassword),
                             !.updated_at = now],
          err |-> NoErr]

\* ---------------------------------------------------------------- state
VARIABLES
    users,       \* rows of table users
    clock,       \* the wall clock read by time.Now()
    nextId,      \* number of uuids drawn so far
    ops,         \* number of service calls entered so far
    pc,          \* per call: where the call stands
    op,          \* per call: the service method called
    args,        \* per call: its arguments
    obj,         \* per call: the *models.User the call holds (nil: {})
    ret,         \* per call: what the call returned
    trace,       \* per call: the repository calls it made, with their outcomes
    tasks,       \* the detached notification goroutines that have not run yet
    queue,       \* messages written to the RabbitMQ queue
    returnedIds, \* ids of the users returned by successful CreateUser calls
    crashed,     \* the process died of a fault
    log          \* lines printed for notifications that failed

\* the subscriber (RabbitMQSubscriber), its channel and the broker's side of it
VARIABLES
    enableConsumer, \* RabbitMQSubscriber.enableConsumer
    sub,            \* where the subscriber stands
    ctxDone,        \* the ctx given to StartConsuming is cancelled
    declared,       \* the subscriber has declared the queue
    consumers,      \* consumers registered on the queue through the channel
    ready,          \* messages in the queue that wait for delivery
    msgs,           \* deliveries sent to the consumer and not received yet
    unacked,        \* deliveries the broker awaits an acknowledgement for
    closed,         \* the channel is closed
    cur,            \* the delivery processMessage is working on (none: {})
    handled,        \* the invocations of the event handler, in order
    acks,           \* the calls of Delivery.Ack, in order
    subLog,         \* the Warn and Error lines of the subscriber's logger
    setup           \* the channel calls StartConsuming made and what it returned

subVars == <<enableConsumer, sub, ctxDone, declared, consumers, ready, msgs,
             unacked, closed, cur, handled, acks, subLog, setup>>

svcVars == <<users, clock, nextId, ops, pc, op, args, obj, ret, trace, tasks,
             queue, returnedIds, crashed, log>>

vars == <<svcVars, subVars>>

NoArgs ==
    [id |-> "", firstName |-> "", lastName |-> "", nickname |-> "",
     password |-> "", email |-> "", country |-> "", page |-> 0, pageSize |-> 0]

\* the arguments CreateUser is called with: every combination of valid field
\* values, the base input with one field empty or malformed, and the input
\* with every field empty
BaseInput ==
    [id |-> "", firstName |-> "Alice", lastName |-> "Bob", nickname |-> "AB123",
     password |-> "supersecurepassword", email |-> "alice@bob.com",
     country |-> "UK", page |-> 0, pageSize |-> 0]

CreateInputs ==
    {[BaseInput EXCEPT !.nickname = nn, !.email = em] :
        nn \in Nicknames \ {""}, em \in {"alice@bob.com", "carol@d.io"}}
    \cup {[BaseInput EXCEPT !.firstName = fn] : fn \in FirstNames}
    \cup {[BaseInput EXCEPT !.lastName = ln] : ln \in LastNames}
    \cup {[BaseInput EXCEPT !.nickname = nn] : nn \in Nicknames}
    \cup {[BaseInput EXCEPT !.country = co] : co \in Countries}
    \cup {[BaseInput EXCEPT !.email = em] : em \in Emails}
    \cup {[BaseInput EXCEPT !.password = pw] : pw \in Passwords}
    \cup {NoArgs}

\* the arguments UpdateUser is called with: nothing, one field, or email and
\* nickname together, for every id
UpdateInputs ==
    {NoArgs} \cup
    {[a EXCEPT !.id = id] :
        id \in IdInputs \ {""},
        a \in {NoArgs, [NoArgs EXCEPT !.country = "US"],
               [NoArgs EXCEPT !.firstName = "Carol"],
               [NoArgs EXCEPT !.lastName = "Dee"]}
              \cup {[NoArgs EXCEPT !.nickname = nn] : nn \in Nicknames}
              \cup {[NoArgs EXCEPT !.email = em] : em \in Emails}
              \cup {[NoArgs EXCEPT !.email = "carol@d.io", !.nickname = "CD456"]}}

PasswordInputs ==
    {[NoArgs EXCEPT !.id = id, !.password = pw] : id \in IdInputs, pw \in Passwords}

IdOnlyInputs == {[NoArgs EXCEPT !.id = id] : id \in IdInputs}

ListInputs ==
    {[NoArgs EXCEPT !.country = co, !.page = p, !.pageSize = ps] :
        co \in CountryFilters, p \in Pages, ps \in PageSizes}

NoRet == [user |-> {}, list |-> <<>>, total |-> 0, err |-> NoErr]

\* a row that storage may hold when the service starts
SeedUser ==
    [id |-> "u0", first_name |-> "Alice", last_name |-> "Bob",
     nickname |-> "AB123", password |-> HashPassword("supersecurepassword"),
     email |-> "alice@bob.com", country |-> "UK",
     created_at |-> 1, updated_at |-> 1]

\* the service after construction, at time now
Started(now) ==
    /\ users \in {{}, {SeedUser}}
    /\ clock = now
    /\ nextId = 0
    /\ ops = 0
    /\ pc = [c \in Calls |-> "idle"]
    /\ op = [c \in Calls |-> "none"]
    /\ args = [c \in Calls |-> NoArgs]
    /\ obj = [c \in Calls |-> {}]
    /\ ret = [c \in Calls |-> NoRet]
    /\ trace = [c \in Calls |-> <<>>]
    /\ tasks = <<>>
    /\ queue = <<>>
    /\ returnedIds = <<>>
    /\ crashed = FALSE
    /\ log = <<>>

\* the service starts after the seed row was written
ServiceInit == Started(SeedUser.updated_at + 1)

\* a subscriber that is never started
Unstarted ==
    /\ enableConsumer = FALSE
    /\ sub = "new"
    /\ ctxDone = FALSE
    /\ declared = FALSE
    /\ consumers = 0
    /\ ready = <<>>
    /\ msgs = <<>>
    /\ unacked = {}
    /\ closed = FALSE
    /\ cur = {}
    /\ handled = <<>>
    /\ acks = <<>>
    /\ subLog = <<>>
    /\ setup = [calls |-> <<>>, err |-> NoErr]

Init == ServiceInit /\ Unstarted

\* the service started at the moment the seed row was written: the clock
\* advances while calls are in progress
WriteInit == Started(SeedUser.updated_at) /\ users = {SeedUser} /\ Unstarted

\* time.Now() where the value read is kept: the clock may have advanced since
\* it was last read
NowValues == {t \in {clock, clock + 1} : t <= MaxClock}

\* ---------------------------------------------------------------- repository
\* SELECT id, first_name, last_name, nickname, email, country, created_at,
\* updated_at scanned into a zero models.User: the password column is not read
Scan(row) == [ZeroUser EXCEPT !.id = row.id,
                              !.first_name = row.first_name,
                              !.last_name = row.last_name,
                              !.nickname = row.nickname,
                              !.email = row.email,
                              !.country = row.country,
                              !.created_at = row.created_at,
                              !.updated_at = row.updated_at]

\* a lookup that does not translate sql.ErrNoRows into ErrUserNotFound
GetContext_NoRows(rows, failed) ==
    IF failed
    THEN [r |-> "error", user |-> {},
          err |-> Wrap(ErrDriver, "error retrieving user from database")]
    ELSE IF rows = {}
    THEN [r |-> "notfound", user |-> {},
          err |-> Wrap(NewError("sql: no rows in result set"),
                       "error retrieving user from database")]
    ELSE [r |-> "found", user |-> {Scan(Deref(rows))}, err |-> NoErr]

\* db.GetContext of a single-row SELECT; failed: the driver reports an error
GetContext(rows, failed) ==
    IF failed
    THEN [r |-> "error", user |-> {},
          err |-> Wrap(ErrDriver, "error retrieving user from database")]
    ELSE IF rows = {}
    THEN [r |-> "notfound", user |-> {}, err |-> ErrUserNotFound]
    ELSE [r |-> "found", user |-> {Scan(Deref(rows))}, err |-> NoErr]

GetByID(id, failed) == GetContext({r \in users : r.id = id}, failed)

GetByEmail(email, failed) == GetContext({r \in users : r.email = email}, failed)

\* a nickname lookup that compares against the email column
GetByNickname_Email(nickname, failed) ==
    GetContext({r \in users : r.email = nickname}, failed)

GetByNickname(nickname, failed) ==
    GetContext({r \in users : r.nickname = nickname}, failed)

\* a table with the primary key only
UniqueViolation_KeyOnly(tbl, u) == \E r \in tbl : r.id = u.id

\* id UUID PRIMARY KEY, nickname ... UNIQUE, email ... UNIQUE
UniqueViolation(tbl, u) ==
    \E r \in tbl : r.id = u.id \/ r.nickname = u.nickname \/ r.email = u.email

\* INSERT INTO users; the defaults for an empty id and zero times are applied
\* first (uuid and now are what uuid.New() and time.Now() return if asked)
Create(tbl, user, uuid, now, failed) ==
    LET u == [user EXCEPT
                 !.id = IF user.id = "" THEN uuid ELSE user.id,
                 !.created_at = IF user.created_at = 0 THEN now ELSE user.created_at,
                 !.updated_at = IF user.updated_at = 0 THEN now ELSE user.updated_at]
    IN  IF failed
        THEN [r |-> "error", tbl |-> tbl, user |-> u,
              err |-> Wrap(ErrDriver, "error inserting user into database")]
        ELSE IF UniqueViolation(tbl, u)
        THEN [r |-> "conflict", tbl |-> tbl, user |-> u,
              err |-> Wrap(ErrUniqueViolation, "error inserting user into database")]
        ELSE [r |-> "ok", tbl |-> tbl \cup {u}, user |-> u, err |-> NoErr]

\* an update that inserts the row it does not find
RepoUpdate_Upsert(tbl, user, now, failed) ==
    LET old == {r \in tbl : r.id = user.id}
        u == [user EXCEPT !.updated_at = now]
    IN  IF failed
        THEN [r |-> "error", tbl |-> tbl, user |-> u,
              err |-> Wrap(ErrDriver, "error updating user in the database")]
        ELSE IF UniqueViolation(tbl \ old, u)
        THEN [r |-> "conflict", tbl |-> tbl, user |-> u,
              err |-> Wrap(ErrUniqueViolation, "error updating user in the database")]
        ELSE [r |-> "ok", tbl |-> (tbl \ old) \cup {u}, user |-> u, err |-> NoErr]

\* UPDATE users SET first_name, last_name, nickname, email, country,
\* updated_at WHERE id; user.UpdatedAt is set to now first
RepoUpdate(tbl, user, now, failed) ==
    LET old == {r \in tbl : r.id = user.id}
        new == {[r EXCEPT !.first_name = user.first_name,
                          !.last_name = user.last_name,
                          !.nickname = user.nickname,
                          !.email = user.email,
                          !.country = user.country,
                          !.updated_at = now] : r \in old}
        u == [user EXCEPT !.updated_at = now]
    IN  IF failed
        THEN [r |-> "error", tbl |-> tbl, user |-> u,
              err |-> Wrap(ErrDriver, "error updating user in the database")]
        ELSE IF \E n \in new : UniqueViolation(tbl \ old, n)
        THEN [r |-> "conflict", tbl |-> tbl, user |-> u,
              err |-> Wrap(ErrUniqueViolation, "error updating user in the database")]
        ELSE IF old = {}
        THEN [r |-> "norows", tbl |-> tbl, user |-> u, err |-> ErrUserNotFound]
        ELSE [r |-> "ok", tbl |-> (tbl \ old) \cup new, user |-> u, err |-> NoErr]

\* an UPDATE of password and updated_at that has no WHERE clause
RepoUpdatePassword_AllRows(tbl, id, password, now, failed) ==
    LET old == {r \in tbl : r.id = id}
        new == {[r EXCEPT !.password = password, !.updated_at = now] : r \in tbl}
    IN  IF failed
        THEN [r |-> "error", tbl |-> tbl,
              err |-> Wrap(ErrDriver, "error updating password in the database")]
        ELSE IF old = {}
        THEN [r |-> "norows", tbl |-> tbl, err |-> ErrUserNotFound]
        ELSE [r |-> "ok", tbl |-> new, err |-> NoErr]

\* UPDATE users SET password, updated_at WHERE id
RepoUpdatePassword(tbl, id, password, now, failed) ==
    LET old == {r \in tbl : r.id = id}
        new == {[r EXCEPT !.password = password, !.updated_at = now] : r \in old}
    IN  IF failed
        THEN [r |-> "error", tbl |-> tbl,
              err |-> Wrap(ErrDriver, "error updating password in the database")]
        ELSE IF old = {}
        THEN [r |-> "norows", tbl |-> tbl, err |-> ErrUserNotFound]
        ELSE [r |-> "ok", tbl |-> (tbl \ old) \cup new, err |-> NoErr]

\* a delete that does not look at the number of rows affected
Delete_Idempotent(tbl, id, failed) ==
    LET old == {r \in tbl : r.id = id}
    IN  IF failed
        THEN [r |-> "error", tbl |-> tbl,
              err |-> Wrap(ErrDriver, "error removing user from the database")]
        ELSE [r |-> "ok", tbl |-> tbl \ old, err |-> NoErr]

\* a soft delete: the statement reports the row as affected and keeps it
Delete_Soft(tbl, id, failed) ==
    LET old == {r \in tbl : r.id = id}
    IN  IF failed
        THEN [r |-> "error", tbl |-> tbl,
              err |-> Wrap(ErrDriver, "error removing user from the database")]
        ELSE IF old = {}
        THEN [r |-> "norows", tbl |-> tbl, err |-> ErrUserNotFound]
        ELSE [r |-> "ok", tbl |-> tbl, err |-> NoErr]

\* DELETE FROM users WHERE id
Delete(tbl, id, failed) ==
    LET old == {r \in tbl : r.id = id}
    IN  IF failed
        THEN [r |-> "error", tbl |-> tbl,
              err |-> Wrap(ErrDriver, "error removing user from the database")]
        ELSE IF old = {}
        THEN [r |-> "norows", tbl |-> tbl, err |-> ErrUserNotFound]
        ELSE [r |-> "ok", tbl |-> tbl \ old, err |-> NoErr]

\* value ILIKE pattern: % matches any run of characters, _ any one character,
\* letters match without regard to case
RECURSIVE LikeMatch(_, _)
LikeMatch(s, p) ==
    IF p = "" THEN s = ""
    ELSE IF Head(p) = "%"
         THEN LikeMatch(s, Tail(p)) \/ (s # "" /\ LikeMatch(Tail(s), p))
    ELSE IF s = "" THEN FALSE
    ELSE (Head(p) = "_" \/ Head(p) = Head(s)) /\ LikeMatch(Tail(s), Tail(p))

ToLowerTable ==
    [ch \in UpperLetters |->
        CHOOSE l \in LowerLetters : \E k \in 1..26 :
            /\ SubSeq("ABCDEFGHIJKLMNOPQRSTUVWXYZ", k, k) = ch
            /\ SubSeq("abcdefghijklmnopqrstuvwxyz", k, k) = l]

LowerChar(ch) == IF ch \in UpperLetters THEN ToLowerTable[ch] ELSE ch

RECURSIVE Lower(_)
Lower(s) == IF s = "" THEN "" ELSE LowerChar(Head(s)) \o Lower(Tail(s))

ILike(value, pattern) == LikeMatch(Lower(value), Lower(pattern))

DefaultPageSize == 10

\* the rows a filter keeps: a condition for every non-empty filter field
Matching(tbl, filter) ==
    {r \in tbl :
        /\ filter.country # "" => ILike(r.country, filter.country)
        /\ filter.email # "" => ILike(r.email, filter.email)
        /\ filter.nickname # "" => ILike(r.nickname, filter.nickname)
        /\ filter.firstName # "" => ILike(r.first_name, filter.firstName)
        /\ filter.lastName # "" => ILike(r.last_name, filter.lastName)}

\* the orders ORDER BY created_at DESC can return rows in
Orderings(rows) ==
    {s \in [1..Cardinality(rows) -> rows] :
        /\ \A i, j \in DOMAIN s : i # j => s[i] # s[j]
        /\ \A i, j \in DOMAIN s : i < j => s[i].created_at >= s[j].created_at}

Min(a, b) == IF a < b THEN a ELSE b

\* the page, page size, OFFSET and LIMIT List derives from its pagination
Paginate(page, pageSize) ==
    LET pg == IF page < 1 THEN 1 ELSE page
        size == IF pageSize < 1 THEN DefaultPageSize ELSE pageSize
    IN  [page |-> pg, pageSize |-> size, offset |-> (pg - 1) * size, limit |-> size]

\* PostgresUserRepository.List for one of the orders the query can return
List(tbl, filter, page, pageSize, order, failed) ==
    LET offset == Paginate(page, pageSize).offset
        limit == Paginate(page, pageSize).limit
        rows == SubSeq(order, offset + 1, Min(offset + limit, Len(order)))
    IN  IF failed
        THEN [list |-> <<>>, total |-> 0,
              err |-> Wrap(ErrDriver, "error counting users in the database")]
        ELSE [list |-> [i \in DOMAIN rows |-> Scan(rows[i])],
              total |-> Cardinality(Matching(tbl, filter)), err |-> NoErr]

\* ---------------------------------------------------------------- service
\* a generator that hands out one id
Uuid_Fixed(n) == "u1"

\* uuid.New().String(): the n-th id drawn
Uuid(n) == "u" \o ToString(n)

\* no call has returned without its caller having taken the result yet
Running == ~crashed /\ \A c \in Calls : pc[c] # "done"

Called(c, m, r) == trace' = [trace EXCEPT ![c] = Append(@, [m |-> m, r |-> r])]

\* a caller enters the service; the lowest free slot is the one it takes
CanEnter(c) ==
    /\ Running
    /\ pc[c] = "idle"
    /\ \A d \in Calls : d < c => pc[d] # "idle"
    /\ ops < MaxOps

Enter(c, o, a) ==
    /\ ops' = ops + 1
    /\ op' = [op EXCEPT ![c] = o]
    /\ args' = [args EXCEPT ![c] = a]

At(c, label) == Running /\ pc[c] = label

Return(c, user, err) ==
    /\ pc' = [pc EXCEPT ![c] = "done"]
    /\ ret' = [ret EXCEPT ![c] = [NoRet EXCEPT !.user = user, !.err = err]]

Goto(c, label) ==
    /\ pc' = [pc EXCEPT ![c] = label]
    /\ UNCHANGED ret

\* a sendNotification that starts the goroutine twice
sendNotification_Twice(c, type, id) ==
    tasks' = tasks \o
        <<[type |-> type, owner |-> c, user |-> {}, id |-> id,
           at |-> "spawned", ctx |-> "live", body |-> {}],
          [type |-> type, owner |-> c, user |-> {}, id |-> id,
           at |-> "spawned", ctx |-> "live", body |-> {}]>>

\* UserService.sendNotification: go func() { ... fn(notifyCtx) ... }(); the
\* closure holds the caller's *models.User (or the id, for a deletion)
sendNotification(c, type, id) ==
    tasks' = Append(tasks, [type |-> type, owner |-> c, user |-> {}, id |-> id,
                            at |-> "spawned", ctx |-> "live", body |-> {}])

\* a pre-check that lets a found row pass
PreCheck_Pass(err, exists, msg) ==
    IF err # NoErr /\ ~Is(err, ErrUserNotFound) THEN Wrap(err, msg) ELSE NoErr

\* the uniqueness pre-check on the error of a lookup:
\*   if err == nil { return exists }
\*   else if !errors.Is(err, repository.ErrUserNotFound) { return Wrap(err, msg) }
PreCheck(err, exists, msg) ==
    IF err = NoErr THEN exists
    ELSE IF ~Is(err, ErrUserNotFound) THEN Wrap(err, msg)
    ELSE NoErr

\* CreateUser: NewUser and the email lookup
CreateUser(c) ==
    /\ CanEnter(c)
    /\ \E a \in CreateInputs, now \in NowValues, failed \in BOOLEAN :
        LET nu == NewUser(a.firstName, a.lastName, a.nickname, a.password,
                          a.email, a.country, Uuid(nextId + 1), now)
            lk == GetByEmail(a.email, failed)
            e == PreCheck(lk.err, ErrEmailAlreadyExists, "error checking existing email")
        IN  /\ Enter(c, "CreateUser", a)
            /\ IF nu.err # NoErr
               THEN /\ Return(c, {}, Wrap(nu.err, "error creating user"))
                    /\ UNCHANGED <<clock, nextId, obj, trace>>
               ELSE /\ nextId' = nextId + 1
                    /\ clock' = now
                    /\ obj' = [obj EXCEPT ![c] = nu.user]
                    /\ Called(c, "GetByEmail", lk.r)
                    /\ IF e # NoErr
                       THEN Return(c, {}, e)
                       ELSE Goto(c, "CreateUser_GetByNickname")
            /\ UNCHANGED <<users, tasks, queue, returnedIds, crashed, log, subVars>>

CreateUser_GetByNickname(c) ==
    /\ At(c, "CreateUser_GetByNickname")
    /\ \E failed \in BOOLEAN :
        LET lk == GetByNickname(args[c].nickname, failed)
            e == PreCheck(lk.err, ErrNicknameAlreadyExists, "error checking existing nickname")
        IN  /\ Called(c, "GetByNickname", lk.r)
            /\ IF e # NoErr
               THEN Return(c, {}, e)
               ELSE Goto(c, "CreateUser_Create")
    /\ UNCHANGED <<users, clock, nextId, ops, op, args, obj, tasks, queue,
                   returnedIds, crashed, log, subVars>>

\* repo.Create and, when it succeeded, the spawn of the notification
CreateUser_Create(c) ==
    /\ At(c, "CreateUser_Create")
    /\ \E failed \in BOOLEAN :
        LET w == Create(users, Deref(obj[c]), Uuid(nextId + 1), clock, failed)
        IN  /\ Called(c, "Create", w.r)
            /\ users' = w.tbl
            /\ obj' = [obj EXCEPT ![c] = {w.user}]
            /\ IF w.err # NoErr
               THEN /\ Return(c, {}, Wrap(w.err, "error persisting user"))
                    /\ UNCHANGED tasks
               ELSE /\ sendNotification(c, "user.created", "")
                    /\ Goto(c, "CreateUser_Return")
    /\ UNCHANGED <<clock, nextId, ops, op, args, queue, returnedIds, crashed, log, subVars>>

\* a CreateUser that returns only when its notification goroutine has ended
CreateUser_Return_Waits(c) ==
    /\ At(c, "CreateUser_Return")
    /\ \A i \in DOMAIN tasks : tasks[i].owner # c
    /\ obj' = [obj EXCEPT ![c] = {SanitizeForOutput(Deref(obj[c]))}]
    /\ Return(c, obj'[c], NoErr)
    /\ returnedIds' = Append(returnedIds, Deref(obj[c]).id)
    /\ UNCHANGED <<users, clock, nextId, ops, op, args, trace, tasks, queue, crashed, log, subVars>>

\* user.SanitizeForOutput(); return user, nil
CreateUser_Return(c) ==
    /\ At(c, "CreateUser_Return")
    /\ obj' = [obj EXCEPT ![c] = {SanitizeForOutput(Deref(obj[c]))}]
    /\ Return(c, obj'[c], NoErr)
    /\ returnedIds' = Append(returnedIds, Deref(obj[c]).id)
    /\ UNCHANGED <<users, clock, nextId, ops, op, args, trace, tasks, queue, crashed, log, subVars>>

\* GetUserByID, whole
GetUserByID(c) ==
    /\ CanEnter(c)
    /\ \E a \in IdOnlyInputs, failed \in BOOLEAN :
        LET lk == GetByID(a.id, failed)
        IN  /\ Enter(c, "GetUserByID", a)
            /\ IF a.id = ""
               THEN /\ Return(c, {}, ErrInvalidInput)
                    /\ UNCHANGED <<obj, trace>>
               ELSE /\ Called(c, "GetByID", lk.r)
                    /\ IF lk.err # NoErr
                       THEN /\ Return(c, {}, IF Is(lk.err, ErrUserNotFound) THEN lk.err
                                             ELSE Wrap(lk.err, "error fetching user"))
                            /\ UNCHANGED obj
                       ELSE /\ obj' = [obj EXCEPT ![c] = {SanitizeForOutput(Deref(lk.user))}]
                            /\ Return(c, obj'[c], NoErr)
            /\ UNCHANGED <<users, clock, nextId, tasks, queue, returnedIds, crashed, log, subVars>>

\* validateAndCheckNickname up to its lookup, entered with the user in u
NicknameStage(c, u, a) ==
    IF a.nickname # "" /\ a.nickname # u.nickname
    THEN Goto(c, "UpdateUser_GetByNickname")
    ELSE Goto(c, "UpdateUser_Update")

\* a validateAndCheckEmail that checks every supplied email
EmailStage_Always(c, u, a) ==
    IF a.email # ""
    THEN IF ValidateEmail(a.email) # NoErr
         THEN Return(c, {}, Wrap(ValidateEmail(a.email), "error validating email"))
         ELSE Goto(c, "UpdateUser_GetByEmail")
    ELSE NicknameStage(c, u, a)

\* validateAndCheckEmail up to its lookup, entered with the user in u
EmailStage(c, u, a) ==
    IF a.email # "" /\ a.email # u.email
    THEN IF ValidateEmail(a.email) # NoErr
         THEN Return(c, {}, Wrap(ValidateEmail(a.email), "error validating email"))
         ELSE Goto(c, "UpdateUser_GetByEmail")
    ELSE NicknameStage(c, u, a)

\* UpdateUser: the id check and the fetch, and the local code up to the
\* next repository call
UpdateUser(c) ==
    /\ CanEnter(c)
    /\ \E a \in UpdateInputs, failed \in BOOLEAN :
        LET lk == GetByID(a.id, failed)
        IN  /\ Enter(c, "UpdateUser", a)
            /\ IF a.id = ""
               THEN /\ Return(c, {}, ErrInvalidInput)
                    /\ UNCHANGED <<obj, trace>>
               ELSE /\ Called(c, "GetByID", lk.r)
                    /\ obj' = [obj EXCEPT ![c] = lk.user]
                    /\ IF lk.err # NoErr
                       THEN Return(c, {}, Wrap(lk.err, "error fetching user for update"))
                       ELSE EmailStage(c, Deref(lk.user), a)
            /\ UNCHANGED <<users, clock, nextId, tasks, queue, returnedIds, crashed, log, subVars>>

UpdateUser_GetByEmail(c) ==
    /\ At(c, "UpdateUser_GetByEmail")
    /\ \E failed \in BOOLEAN :
        LET lk == GetByEmail(args[c].email, failed)
            e == PreCheck(lk.err, ErrEmailAlreadyExists, "error checking existing email")
        IN  /\ Called(c, "GetByEmail", lk.r)
            /\ IF e # NoErr
               THEN Return(c, {}, Wrap(e, "error validating email"))
               ELSE NicknameStage(c, Deref(obj[c]), args[c])
    /\ UNCHANGED <<users, clock, nextId, ops, op, args, obj, tasks, queue,
                   returnedIds, crashed, log, subVars>>

UpdateUser_GetByNickname(c) ==
    /\ At(c, "UpdateUser_GetByNickname")
    /\ \E failed \in BOOLEAN :
        LET lk == GetByNickname(args[c].nickname, failed)
            e == PreCheck(lk.err, ErrNicknameAlreadyExists, "error checking existing nickname")
        IN  /\ Called(c, "GetByNickname", lk.r)
            /\ IF e # NoErr
               THEN Return(c, {}, Wrap(e, "error validating nickname"))
               ELSE Goto(c, "UpdateUser_Update")
    /\ UNCHANGED <<users, clock, nextId, ops, op, args, obj, tasks, queue,
                   returnedIds, crashed, log, subVars>>

\* user.Update, repo.Update and, when both succeeded, the spawn of the
\* notification; the time user.Update reads is overwritten by repo.Update
UpdateUser_Update(c) ==
    /\ At(c, "UpdateUser_Update")
    /\ \E now2 \in NowValues, failed \in BOOLEAN :
        LET a == args[c]
            up == Update(Deref(obj[c]), a.firstName, a.lastName, a.nickname,
                         a.email, a.country, clock)
            w == RepoUpdate(users, up.user, now2, failed)
        IN  IF up.err # NoErr
            THEN /\ obj' = [obj EXCEPT ![c] = {up.user}]
                 /\ Return(c, {}, Wrap(up.err, "error updating user fields"))
                 /\ UNCHANGED <<users, clock, trace, tasks>>
            ELSE /\ Called(c, "Update", w.r)
                 /\ users' = w.tbl
                 /\ clock' = now2
                 /\ obj' = [obj EXCEPT ![c] = {w.user}]
                 /\ IF w.err # NoErr
                    THEN /\ Return(c, {}, Wrap(w.err, "error updating user"))
                         /\ UNCHANGED tasks
                    ELSE /\ sendNotification(c, "user.updated", "")
                         /\ Goto(c, "UpdateUser_Return")
    /\ UNCHANGED <<nextId, ops, op, args, queue, returnedIds, crashed, log, subVars>>

\* user.SanitizeForOutput(); return user, nil
UpdateUser_Return(c) ==
    /\ At(c, "UpdateUser_Return")
    /\ obj' = [obj EXCEPT ![c] = {SanitizeForOutput(Deref(obj[c]))}]
    /\ Return(c, obj'[c], NoErr)
    /\ UNCHANGED <<users, clock, nextId, ops, op, args, trace, tasks, queue,
                   returnedIds, crashed, log, subVars>>

\* UpdatePassword: the argument check, the fetch and user.UpdatePassword (the
\* time it reads is never read back: the repository writes its own)
UpdatePasswordCall(c) ==
    /\ CanEnter(c)
    /\ \E a \in PasswordInputs, failed \in BOOLEAN :
        LET lk == GetByID(a.id, failed)
        IN  /\ Enter(c, "UpdatePassword", a)
            /\ IF a.id = "" \/ a.password = ""
               THEN /\ Return(c, {}, ErrInvalidInput)
                    /\ UNCHANGED <<obj, trace>>
               ELSE /\ Called(c, "GetByID", lk.r)
                    /\ IF lk.err # NoErr
                       THEN /\ Return(c, {}, Wrap(lk.err, "error fetching user for password update"))
                            /\ UNCHANGED obj
                       ELSE LET up == UpdatePassword(Deref(lk.user), a.password, clock)
                            IN  /\ obj' = [obj EXCEPT ![c] = {up.user}]
                                /\ IF up.err # NoErr
                                   THEN Return(c, {}, Wrap(up.err, "error updating password"))
                                   ELSE Goto(c, "UpdatePassword_Update")
            /\ UNCHANGED <<users, clock, nextId, tasks, queue, returnedIds, crashed, log, subVars>>

\* repo.UpdatePassword(ctx, id, user.Password): now := time.Now() was read
\* at some moment between user.UpdatePassword, whose own reading is in
\* user.UpdatedAt, and the moment the statement is executed
UpdatePassword_Update(c) ==
    /\ At(c, "UpdatePassword_Update")
    /\ \E exec \in NowValues, failed \in BOOLEAN :
       \E now \in Deref(obj[c]).updated_at..exec :
        LET w == RepoUpdatePassword(users, args[c].id, Deref(obj[c]).password, now, failed)
        IN  /\ Called(c, "UpdatePassword", w.r)
            /\ users' = w.tbl
            /\ clock' = exec
            /\ Return(c, {}, IF w.err # NoErr
                             THEN Wrap(w.err, "error persisting password update")
                             ELSE NoErr)
    /\ UNCHANGED <<nextId, ops, op, args, obj, tasks, queue, returnedIds, crashed, log, subVars>>

\* DeleteUser: the id check and the fetch
DeleteUser(c) ==
    /\ CanEnter(c)
    /\ \E a \in IdOnlyInputs, failed \in BOOLEAN :
        LET lk == GetByID(a.id, failed)
        IN  /\ Enter(c, "DeleteUser", a)
            /\ IF a.id = ""
               THEN /\ Return(c, {}, ErrInvalidInput)
                    /\ UNCHANGED <<obj, trace>>
               ELSE /\ Called(c, "GetByID", lk.r)
                    /\ obj' = [obj EXCEPT ![c] = lk.user]
                    /\ IF lk.err # NoErr
                       THEN Return(c, {}, Wrap(lk.err, "error fetching user for deletion"))
                       ELSE Goto(c, "DeleteUser_Delete")
            /\ UNCHANGED <<users, clock, nextId, tasks, queue, returnedIds, crashed, log, subVars>>

\* a DeleteUser that spawns the notification before it looks at the error
DeleteUser_Delete_Early(c) ==
    /\ At(c, "DeleteUser_Delete")
    /\ \E failed \in BOOLEAN :
        LET w == Delete(users, args[c].id, failed)
        IN  /\ Called(c, "Delete", w.r)
            /\ users' = w.tbl
            /\ sendNotification(c, "user.deleted", args[c].id)
            /\ Return(c, {}, IF w.err # NoErr THEN Wrap(w.err, "error removing user")
                             ELSE NoErr)
    /\ UNCHANGED <<clock, nextId, ops, op, args, obj, queue, returnedIds, crashed, log, subVars>>

\* repo.Delete and, when it succeeded, the spawn of the notification
DeleteUser_Delete(c) ==
    /\ At(c, "DeleteUser_Delete")
    /\ \E failed \in BOOLEAN :
        LET w == Delete(users, args[c].id, failed)
        IN  /\ Called(c, "Delete", w.r)
            /\ users' = w.tbl
            /\ IF w.err # NoErr
               THEN /\ Return(c, {}, Wrap(w.err, "error removing user"))
                    /\ UNCHANGED tasks
               ELSE /\ sendNotification(c, "user.deleted", args[c].id)
                    /\ Return(c, {}, NoErr)
    /\ UNCHANGED <<clock, nextId, ops, op, args, obj, queue, returnedIds, crashed, log, subVars>>

\* ListUsers, whole
ListUsers(c) ==
    /\ CanEnter(c)
    /\ \E a \in ListInputs, failed \in BOOLEAN :
        \E order \in Orderings(Matching(users, a)) :
            LET l == List(users, a, a.page, a.pageSize, order, failed)
            IN  /\ Enter(c, "ListUsers", a)
                /\ Called(c, "List", IF failed THEN "error" ELSE "ok")
                /\ pc' = [pc EXCEPT ![c] = "done"]
                /\ ret' = [ret EXCEPT ![c] =
                       IF l.err # NoErr
                       THEN [NoRet EXCEPT !.err = Wrap(l.err, "error listing users")]
                       ELSE [NoRet EXCEPT
                               !.list = [i \in DOMAIN l.list |-> SanitizeForOutput(l.list[i])],
                               !.total = l.total]]
                /\ UNCHANGED <<users, clock, nextId, obj, tasks, queue, returnedIds, crashed, log, subVars>>

\* the caller takes the result; the notification it spawned, if it has not
\* run yet, keeps the *models.User as the caller left it
Reset(c) ==
    /\ ~crashed
    /\ pc[c] = "done"
    /\ pc' = [pc EXCEPT ![c] = "idle"]
    /\ op' = [op EXCEPT ![c] = "none"]
    /\ args' = [args EXCEPT ![c] = NoArgs]
    /\ obj' = [obj EXCEPT ![c] = {}]
    /\ ret' = [ret EXCEPT ![c] = NoRet]
    /\ trace' = [trace EXCEPT ![c] = <<>>]
    /\ tasks' = [i \in DOMAIN tasks |->
                    IF tasks[i].owner = c
                    THEN [tasks[i] EXCEPT
                            !.owner = 0,
                            !.user = IF tasks[i].at = "spawned" THEN obj[c] ELSE {}]
                    ELSE tasks[i]]
    /\ UNCHANGED <<users, clock, nextId, ops, queue, returnedIds, crashed, log, subVars>>

\* ---------------------------------------------------------------- publisher
\* a models.User whose ID field is left out of the JSON
MarshalUser_NoId(u) ==
    IF u.password = ""
    THEN [first_name |-> u.first_name,
          last_name |-> u.last_name, nickname |-> u.nickname,
          email |-> u.email, country |-> u.country,
          created_at |-> u.created_at, updated_at |-> u.updated_at]
    ELSE [first_name |-> u.first_name,
          last_name |-> u.last_name, nickname |-> u.nickname,
          password |-> u.password,
          email |-> u.email, country |-> u.country,
          created_at |-> u.created_at, updated_at |-> u.updated_at]

\* json.Marshal of a models.User: password has the omitempty tag
MarshalUser(u) ==
    IF u.password = ""
    THEN [id |-> u.id, first_name |-> u.first_name,
          last_name |-> u.last_name, nickname |-> u.nickname,
          email |-> u.email, country |-> u.country,
          created_at |-> u.created_at, updated_at |-> u.updated_at]
    ELSE [id |-> u.id, first_name |-> u.first_name,
          last_name |-> u.last_name, nickname |-> u.nickname,
          password |-> u.password,
          email |-> u.email, country |-> u.country,
          created_at |-> u.created_at, updated_at |-> u.updated_at]

\* the Event of NotifyUserCreated / NotifyUserUpdated, its payload as
\* json.Marshal writes it
UserEvent(type, user, now) ==
    [type |-> type, timestamp |-> now, payload |-> MarshalUser(user)]

\* the Event of NotifyUserDeleted: the payload is the map {"id": userID}
DeletedEvent(userID, now) ==
    [type |-> "user.deleted", timestamp |-> now, payload |-> [id |-> userID]]

\* the *models.User a notification holds
TaskUser(t) == IF t.owner = 0 THEN Deref(t.user) ELSE Deref(obj[t.owner])

\* the caller still has its write of user.Password ahead of it
SanitizePending(t) ==
    t.at = "spawned" /\ t.owner # 0 /\ pc[t.owner] \in {"CreateUser_Return", "UpdateUser_Return"}

\* what the goroutine's unsynchronized read of user.Password can observe
PasswordReads(t) ==
    IF SanitizePending(t) THEN {TaskUser(t).password, ""}
    ELSE {TaskUser(t).password}

\* a read torn against the concurrent write: the data pointer of "" with the
\* length of the hash
TornRead(t) == SanitizePending(t) /\ TaskUser(t).password # ""

\* RabbitMQNotificationService.queueName, the one queue of the deployment
QueueName == "user_notifications"

\* amqp.Persistent
Persistent == 2

\* a publishing handed to the exchange "user.events" with no routing key
Publishing_Exchange(event) ==
    [exchange |-> "user.events", key |-> "", mandatory |-> FALSE,
     immediate |-> FALSE, contentType |-> "application/json",
     deliveryMode |-> Persistent, body |-> event]

\* the arguments sendNotification gives channel.Publish for an event
Publishing(event) ==
    [exchange |-> "", key |-> QueueName, mandatory |-> FALSE,
     immediate |-> FALSE, contentType |-> "application/json",
     deliveryMode |-> Persistent, body |-> event]

\* channel.Publish; failed: the broker write reports an error.  The default
\* exchange routes to the queue named by the routing key, and a message that
\* is not mandatory and routes nowhere is dropped.
Publish(q, pub, failed) ==
    IF failed
    THEN [queue |-> q, err |-> Wrap(NewError("amqp: channel closed"),
                                    "error sending message to the queue")]
    ELSE IF pub.exchange = "" /\ pub.key = QueueName
    THEN [queue |-> Append(q, pub.body), err |-> NoErr]
    ELSE [queue |-> q, err |-> NoErr]

Remove(seq, i) == SubSeq(seq, 1, i - 1) \o SubSeq(seq, i + 1, Len(seq))

\* what the failed notification prints: the closures of CreateUser and of
\* DeleteUser print the same line
FailureLine(type) ==
    IF type = "user.updated" THEN "Error notifying user update:"
    ELSE "Error notifying user create:"

\* a goroutine that never gets to its call of channel.Publish
Dispatch_Never(i, event) == tasks' = tasks

\* the goroutine calls channel.Publish with the marshalled event and waits
\* for it; notifyCtx was derived from the caller's ctx when it started
Dispatch(i, event) ==
    tasks' = [tasks EXCEPT ![i] = [@ EXCEPT !.at = "publishing", !.user = {},
                                            !.body = {Publishing(event)}]]

\* the detached goroutine of CreateUser / UpdateUser up to its call of
\* channel.Publish: NotifyUserCreated or NotifyUserUpdated on the shared
\* *models.User and json.Marshal of the event
NotifyUser(i) ==
    /\ Running
    /\ i \in DOMAIN tasks
    /\ tasks[i].at = "spawned"
    /\ tasks[i].type \in {"user.created", "user.updated"}
    /\ \E pw \in PasswordReads(tasks[i]) :
        Dispatch(i, UserEvent(tasks[i].type,
                              [TaskUser(tasks[i]) EXCEPT !.password = pw], clock))
    /\ UNCHANGED <<users, clock, nextId, ops, pc, op, args, obj, ret, trace,
                   queue, returnedIds, crashed, log, subVars>>

\* the same goroutine when its read of user.Password is torn
NotifyUser_Fault(i) ==
    /\ Running
    /\ i \in DOMAIN tasks
    /\ tasks[i].at = "spawned"
    /\ tasks[i].type \in {"user.created", "user.updated"}
    /\ TornRead(tasks[i])
    /\ crashed' = TRUE
    /\ UNCHANGED <<users, clock, nextId, ops, pc, op, args, obj, ret, trace,
                   tasks, queue, returnedIds, log, subVars>>

\* the detached goroutine of DeleteUser up to its call of channel.Publish:
\* NotifyUserDeleted
NotifyUserDeleted(i) ==
    /\ Running
    /\ i \in DOMAIN tasks
    /\ tasks[i].at = "spawned"
    /\ tasks[i].type = "user.deleted"
    /\ Dispatch(i, DeletedEvent(tasks[i].id, clock))
    /\ UNCHANGED <<users, clock, nextId, ops, pc, op, args, obj, ret, trace,
                   queue, returnedIds, crashed, log, subVars>>

\* a notification whose failure undoes the mutation it reports
PublishReturns_Rollback(i) ==
    /\ Running
    /\ i \in DOMAIN tasks
    /\ tasks[i].at = "publishing"
    /\ \E failed \in BOOLEAN :
        LET p == Publish(queue, Deref(tasks[i].body), failed)
        IN  /\ queue' = p.queue
            /\ log' = IF p.err # NoErr THEN Append(log, FailureLine(tasks[i].type))
                      ELSE log
            /\ users' = IF p.err # NoErr
                        THEN {r \in users : r.id # Deref(tasks[i].body).body.payload.id}
                        ELSE users
    /\ tasks' = Remove(tasks, i)
    /\ UNCHANGED <<clock, nextId, ops, pc, op, args, obj, ret, trace,
                   returnedIds, crashed, subVars>>

\* channel.Publish returns: the publisher wraps an error, the closure prints
\* it and returns nil, and the goroutine ends
PublishReturns(i) ==
    /\ Running
    /\ i \in DOMAIN tasks
    /\ tasks[i].at = "publishing"
    /\ \E failed \in BOOLEAN :
        LET p == Publish(queue, Deref(tasks[i].body), failed)
        IN  /\ queue' = p.queue
            /\ log' = IF p.err # NoErr THEN Append(log, FailureLine(tasks[i].type))
                      ELSE log
    /\ tasks' = Remove(tasks, i)
    /\ UNCHANGED <<users, clock, nextId, ops, pc, op, args, obj, ret, trace,
                   returnedIds, crashed, subVars>>

\* the caller's ctx is cancelled once its handler has returned (net/http
\* cancels the request context); the ctx of the notification is its child
CancelCtx(i) ==
    /\ Running
    /\ i \in DOMAIN tasks
    /\ tasks[i].owner = 0
    /\ tasks[i].ctx = "live"
    /\ tasks' = [tasks EXCEPT ![i] = [@ EXCEPT !.ctx = "canceled"]]
    /\ UNCHANGED <<users, clock, nextId, ops, pc, op, args, obj, ret, trace,
                   queue, returnedIds, crashed, log, subVars>>

\* notificationTimeout elapses on the context made by context.WithTimeout
\* when the goroutine started
TimeoutFires(i) ==
    /\ Running
    /\ i \in DOMAIN tasks
    /\ tasks[i].at = "publishing"
    /\ tasks[i].ctx = "live"
    /\ tasks' = [tasks EXCEPT ![i] = [@ EXCEPT !.ctx = "expired"]]
    /\ UNCHANGED <<users, clock, nextId, ops, pc, op, args, obj, ret, trace,
                   queue, returnedIds, crashed, log, subVars>>

\* one step of the call in slot c, or its caller taking the result
CallStep(c) ==
    \/ CreateUser(c)
    \/ CreateUser_GetByNickname(c)
    \/ CreateUser_Create(c)
    \/ CreateUser_Return(c)
    \/ GetUserByID(c)
    \/ UpdateUser(c)
    \/ UpdateUser_GetByEmail(c)
    \/ UpdateUser_GetByNickname(c)
    \/ UpdateUser_Update(c)
    \/ UpdateUser_Return(c)
    \/ UpdatePasswordCall(c)
    \/ UpdatePassword_Update(c)
    \/ DeleteUser(c)
    \/ DeleteUser_Delete(c)
    \/ ListUsers(c)
    \/ Reset(c)

\* the i-th notification goroutine runs up to its call of channel.Publish
GoroutineStep(i) ==
    \/ NotifyUser(i)
    \/ NotifyUser_Fault(i)
    \/ NotifyUserDeleted(i)

Next ==
    \/ \E c \in Calls : CallStep(c)
    \/ \E i \in 1..MaxOps :
        \/ GoroutineStep(i)
        \/ PublishReturns(i)
        \/ CancelCtx(i)
        \/ TimeoutFires(i)

Spec == Init /\ [][Next]_vars

\* the service from the moment the seed row was written
WriteSpec == WriteInit /\ [][Next]_vars

\* a client that makes its calls one after the other: a call starts only when
\* every earlier call has returned and its result was taken.  The
\* notification goroutines run as they do.
OneAtATime == Cardinality({c \in Calls : pc[c] # "idle"}) <= 1

SeqSpec == Init /\ [][Next /\ OneAtATime']_vars

\* the Go scheduler runs every caller that can take a step; nothing is
\* assumed of the notification goroutines or of the broker
FairSpec ==
    /\ Spec
    /\ \A c \in Calls : WF_vars(CallStep(c))

\* the Go scheduler also runs every notification goroutine up to its call of
\* channel.Publish, and timers fire; nothing makes the broker answer
TimedSpec ==
    /\ FairSpec
    /\ \A i \in 1..MaxOps : WF_vars(GoroutineStep(i)) /\ WF_vars(TimeoutFires(i))

\* in addition every call of channel.Publish returns: the write to the
\* connection completes or fails
LiveSpec ==
    /\ TimedSpec
    /\ \A i \in 1..MaxOps : WF_vars(PublishReturns(i))

\* ---------------------------------------------------------------- wire format
\* A JSON value: null, a string, a string holding an RFC 3339 time, a number,
\* or an object with its members.
JNull == [t |-> "null", s |-> "", n |-> 0, o |-> <<>>]
JStr(str) == [t |-> "string", s |-> str, n |-> 0, o |-> <<>>]
JTime(time) == [t |-> "time", s |-> "", n |-> time, o |-> <<>>]
JNum(num) == [t |-> "number", s |-> "", n |-> num, o |-> <<>>]
JObj(members) == [t |-> "object", s |-> "", n |-> 0, o |-> members]

\* A message body: a nil slice, zero bytes, bytes that are no JSON text, or
\* a JSON text with the value it denotes.
NilBody == [form |-> "nil", doc |-> JNull]
EmptyBody == [form |-> "empty", doc |-> JNull]
MalformedBody == [form |-> "malformed", doc |-> JNull]
JsonBody(doc) == [form |-> "json", doc |-> doc]

\* json.Marshal of an Event whose payload is a marshalled models.User or the
\* map {"id": userID}: strings stay strings, time.Time becomes RFC 3339 text
MarshalEvent(event) ==
    JsonBody(JObj([type |-> JStr(event.type),
                   timestamp |-> JTime(event.timestamp),
                   payload |-> JObj([k \in DOMAIN event.payload |->
                                       IF k \in {"created_at", "updated_at"}
                                       THEN JTime(event.payload[k])
                                       ELSE JStr(event.payload[k])])]))

\* the member k of a JSON object, null when the object has none
Member(doc, k) == IF k \in DOMAIN doc.o THEN doc.o[k] ELSE JNull

\* encoding/json decoding one JSON value into a Go string field
IntoString(v) ==
    IF v.t = "null" THEN [ok |-> TRUE, s |-> ""]
    ELSE IF v.t = "string" THEN [ok |-> TRUE, s |-> v.s]
    ELSE [ok |-> FALSE, s |-> ""]

\* encoding/json decoding one JSON value into a time.Time field
IntoTime(v) ==
    IF v.t = "null" THEN [ok |-> TRUE, n |-> 0]
    ELSE IF v.t = "time" THEN [ok |-> TRUE, n |-> v.n]
    ELSE [ok |-> FALSE, n |-> 0]

ZeroEvent == [type |-> "", timestamp |-> 0, payload |-> JNull]

\* json.Unmarshal(msg.Body, &event)
UnmarshalEvent(body) ==
    IF body.form # "json"
    THEN [err |-> NewError(IF body.form = "malformed"
                           THEN "invalid character"
                           ELSE "unexpected end of JSON input"),
          event |-> ZeroEvent]
    ELSE IF body.doc.t = "null" THEN [err |-> NoErr, event |-> ZeroEvent]
    ELSE IF body.doc.t # "object"
    THEN [err |-> NewError("json: cannot unmarshal into Go value of type notification.Event"),
          event |-> ZeroEvent]
    ELSE LET type == IntoString(Member(body.doc, "type"))
             timestamp == IntoTime(Member(body.doc, "timestamp"))
         IN  IF ~type.ok \/ ~timestamp.ok
             THEN [err |-> NewError("json: cannot unmarshal into Go struct field of Event"),
                   event |-> ZeroEvent]
             ELSE [err |-> NoErr,
                   event |-> [type |-> type.s, timestamp |-> timestamp.n,
                              payload |-> Member(body.doc, "payload")]]

\* json.Marshal(payloadMap) followed by json.Unmarshal(payloadBytes, &user)
UnmarshalUser(payload) ==
    LET str(k) == IntoString(Member(payload, k))
        time(k) == IntoTime(Member(payload, k))
    IN  IF \/ \E k \in {"id", "first_name", "last_name", "nickname", "password",
                        "email", "country"} : ~str(k).ok
           \/ \E k \in {"created_at", "updated_at"} : ~time(k).ok
        THEN [err |-> NewError("json: cannot unmarshal into Go struct field of User"),
              user |-> ZeroUser]
        ELSE [err |-> NoErr,
              user |-> [id |-> str("id").s, first_name |-> str("first_name").s,
                        last_name |-> str("last_name").s,
                        nickname |-> str("nickname").s,
                        password |-> str("password").s,
                        email |-> str("email").s, country |-> str("country").s,
                        created_at |-> time("created_at").n,
                        updated_at |-> time("updated_at").n]]

\* ---------------------------------------------------------------- subscriber
\* channel.Qos(1, 0, false): deliveries the broker leaves unacknowledged
PrefetchCount == 1

\* the Delivery the broker sends for a message of the queue
Delivery(m) == [tag |-> m.id, body |-> m.body, redelivered |-> m.redelivered]

\* the zero amqp.Delivery a receive from the closed channel yields
ZeroDelivery == [tag |-> 0, body |-> NilBody, redelivered |-> FALSE]

Line(d, level, msg) == [tag |-> d.tag, level |-> level, msg |-> msg]

\* the unacknowledged messages in queue order, marked as redelivered
RECURSIVE Requeue(_)
Requeue(set) ==
    IF set = {} THEN <<>>
    ELSE LET m == CHOOSE m \in set : \A other \in set : m.id <= other.id
         IN  <<[m EXCEPT !.redelivered = TRUE]>> \o Requeue(set \ {m})

\* msg.Ack(false): fails on a Delivery that has no channel and on a closed
\* channel, otherwise the broker drops the delivery from its unacknowledged
Ack(d, line) ==
    LET ok == d.tag # 0 /\ ~closed
    IN  /\ acks' = Append(acks, [d |-> d, r |-> IF ok THEN "ok" ELSE "error"])
        /\ unacked' = IF ok THEN {m \in unacked : m.id # d.tag} ELSE unacked
        /\ subLog' = subLog \o line \o
                     (IF ok THEN <<>>
                      ELSE <<Line(d, "error",
                                  IF d.body = NilBody
                                  THEN "Error acknowledging empty message"
                                  ELSE "Error acknowledging message")>>)

\* a switch whose user.updated case takes every type that has no case
Dispatched_AnyType(d) ==
    LET dec == UnmarshalEvent(d.body)
        ev == dec.event
        usr == UnmarshalUser(ev.payload)
        id == IntoString(Member(ev.payload, "id"))
        none == {}
    IN  IF dec.err # NoErr
        THEN [log |-> <<Line(d, "error", "Failed to decode message")>>, call |-> none]
        ELSE IF ev.type # "user.deleted"
        THEN IF ev.payload.t # "object" THEN [log |-> <<>>, call |-> none]
             ELSE IF usr.err # NoErr
             THEN [log |-> <<Line(d, "error", "Failed to unmarshal payload to user")>>,
                   call |-> none]
             ELSE [log |-> <<>>,
                   call |-> {[h |-> IF ev.type = "user.created"
                                    THEN "HandleUserCreated" ELSE "HandleUserUpdated",
                              d |-> d, user |-> usr.user, id |-> ""]}]
        ELSE IF ev.payload.t # "object"
             THEN [log |-> <<Line(d, "error", "Payload is not of the expected type")>>,
                   call |-> none]
             ELSE IF Member(ev.payload, "id").t # "string"
             THEN [log |-> <<Line(d, "error", "ID not found or invalid in payload")>>,
                   call |-> none]
             ELSE [log |-> <<>>,
                   call |-> {[h |-> "HandleUserDeleted", d |-> d, user |-> ZeroUser,
                              id |-> id.s]}]

\* processMessage from json.Unmarshal to the switch, and the handleUser*
\* function the switch selects, up to its call of the event handler: the
\* lines logged and the handler call made, if any
Dispatched(d) ==
    LET dec == UnmarshalEvent(d.body)
        ev == dec.event
        usr == UnmarshalUser(ev.payload)
        id == IntoString(Member(ev.payload, "id"))
        none == {}
    IN  IF dec.err # NoErr
        THEN [log |-> <<Line(d, "error", "Failed to decode message")>>, call |-> none]
        ELSE IF ev.type \in {"user.created", "user.updated"}
        THEN IF ev.payload.t # "object" THEN [log |-> <<>>, call |-> none]
             ELSE IF usr.err # NoErr
             THEN [log |-> <<Line(d, "error", "Failed to unmarshal payload to user")>>,
                   call |-> none]
             ELSE [log |-> <<>>,
                   call |-> {[h |-> IF ev.type = "user.created"
                                    THEN "HandleUserCreated" ELSE "HandleUserUpdated",
                              d |-> d, user |-> usr.user, id |-> ""]}]
        ELSE IF ev.type = "user.deleted"
        THEN IF ev.payload.t # "object"
             THEN [log |-> <<Line(d, "error", "Payload is not of the expected type")>>,
                   call |-> none]
             ELSE IF Member(ev.payload, "id").t # "string"
             THEN [log |-> <<Line(d, "error", "ID not found or invalid in payload")>>,
                   call |-> none]
             ELSE [log |-> <<>>,
                   call |-> {[h |-> "HandleUserDeleted", d |-> d, user |-> ZeroUser,
                              id |-> id.s]}]
        ELSE [log |-> <<Line(d, "warn", "Unknown event type")>>, call |-> none]

\* an error of the amqp channel
ErrChannel == NewError("Exception (504) Reason: \"channel/connection is not open\"")

\* the channel calls of StartConsuming in the order it makes them: flag is
\* durable of QueueDeclare, global of Qos and autoAck of Consume, n is the
\* prefetch count of Qos; msg is what the error of the call is wrapped with
SetupSteps ==
    <<[m |-> "QueueDeclare", flag |-> TRUE, n |-> 0,
       msg |-> "failed to declare queue"],
      [m |-> "Qos", flag |-> FALSE, n |-> PrefetchCount,
       msg |-> "failed to configure QoS"],
      [m |-> "Consume", flag |-> FALSE, n |-> 0,
       msg |-> "failed to register consumer"]>>

\* StartConsuming, whole; failure: the channel call that reports an error
\* (0: none does)
StartConsuming ==
    /\ sub = "new"
    /\ \E failure \in 0..Len(SetupSteps) :
        /\ closed => failure = 1
        /\ declared' = (failure # 1)
        /\ consumers' = IF failure = 0 THEN 1 ELSE 0
        /\ setup' = IF failure = 0
                    THEN [calls |-> SetupSteps, err |-> NoErr]
                    ELSE [calls |-> SubSeq(SetupSteps, 1, failure),
                          err |-> Wrap(ErrChannel, SetupSteps[failure].msg)]
        /\ sub' = IF failure # 0 THEN "failed"
                  ELSE IF ~enableConsumer THEN "disabled"
                  ELSE "select"
    /\ UNCHANGED <<enableConsumer, ctxDone, ready, msgs, unacked, closed, cur,
                   handled, acks, subLog, svcVars>>

\* a broker that ignores the prefetch count
Deliver_Unlimited ==
    /\ consumers > 0
    /\ ~closed
    /\ ready # <<>>
    /\ msgs' = Append(msgs, Delivery(Head(ready)))
    /\ unacked' = unacked \cup {Head(ready)}
    /\ ready' = Tail(ready)
    /\ UNCHANGED <<enableConsumer, sub, ctxDone, declared, consumers, closed, cur,
                   handled, acks, subLog, setup, svcVars>>

\* the broker sends the next message of the queue to the consumer
Deliver ==
    /\ consumers > 0
    /\ ~closed
    /\ ready # <<>>
    /\ Cardinality(unacked) < PrefetchCount
    /\ msgs' = Append(msgs, Delivery(Head(ready)))
    /\ unacked' = unacked \cup {Head(ready)}
    /\ ready' = Tail(ready)
    /\ UNCHANGED <<enableConsumer, sub, ctxDone, declared, consumers, closed, cur,
                   handled, acks, subLog, setup, svcVars>>

\* the ctx given to StartConsuming is cancelled
Cancel ==
    /\ ~ctxDone
    /\ ctxDone' = TRUE
    /\ UNCHANGED <<enableConsumer, sub, declared, consumers, ready, msgs, unacked,
                   closed, cur, handled, acks, subLog, setup, svcVars>>

\* select: case <-ctx.Done()
LoopExit ==
    /\ sub = "select"
    /\ ctxDone
    /\ sub' = "stopped"
    /\ UNCHANGED <<enableConsumer, ctxDone, declared, consumers, ready, msgs,
                   unacked, closed, cur, handled, acks, subLog, setup, svcVars>>

\* a loop that returns when the delivery channel is closed
Receive_ExitOnClose ==
    /\ sub = "select"
    /\ \/ /\ msgs # <<>>
          /\ cur' = {Head(msgs)}
          /\ msgs' = Tail(msgs)
          /\ sub' = "process"
       \/ /\ msgs = <<>>
          /\ closed
          /\ cur' = cur
          /\ msgs' = msgs
          /\ sub' = "stopped"
    /\ UNCHANGED <<enableConsumer, ctxDone, declared, consumers, ready, unacked,
                   closed, handled, acks, subLog, setup, svcVars>>

\* select: case msg := <-msgs; a closed channel yields the zero Delivery
Receive ==
    /\ sub = "select"
    /\ \/ /\ msgs # <<>>
          /\ cur' = {Head(msgs)}
          /\ msgs' = Tail(msgs)
       \/ /\ msgs = <<>>
          /\ closed
          /\ Len(acks) < MaxAcks
          /\ cur' = {ZeroDelivery}
          /\ msgs' = msgs
    /\ sub' = "process"
    /\ UNCHANGED <<enableConsumer, ctxDone, declared, consumers, ready, unacked,
                   closed, handled, acks, subLog, setup, svcVars>>

\* a processMessage that returns from an empty message without the Ack
ProcessMessage_EmptyUnacked ==
    /\ sub = "process"
    /\ LET d == Deref(cur)
           p == Dispatched(d)
       IN  IF d.body = NilBody
           THEN /\ subLog' = subLog \o <<Line(d, "error", "Received empty message")>>
                /\ sub' = "select"
                /\ cur' = {}
                /\ UNCHANGED <<handled, acks, unacked>>
           ELSE IF p.call = {}
           THEN /\ Ack(d, p.log)
                /\ sub' = "select"
                /\ cur' = {}
                /\ UNCHANGED handled
           ELSE /\ handled' = handled \o <<Deref(p.call)>>
                /\ sub' = "handling"
                /\ UNCHANGED <<cur, acks, unacked, subLog>>
    /\ UNCHANGED <<enableConsumer, ctxDone, declared, consumers, ready, msgs,
                   closed, setup, svcVars>>

\* processMessage up to its return or up to the call of the event handler
ProcessMessage ==
    /\ sub = "process"
    /\ LET d == Deref(cur)
           p == Dispatched(d)
       IN  IF d.body = NilBody
           THEN /\ Ack(d, <<Line(d, "error", "Received empty message")>>)
                /\ sub' = "select"
                /\ cur' = {}
                /\ UNCHANGED handled
           ELSE IF p.call = {}
           THEN /\ Ack(d, p.log)
                /\ sub' = "select"
                /\ cur' = {}
                /\ UNCHANGED handled
           ELSE /\ handled' = handled \o <<Deref(p.call)>>
                /\ sub' = "handling"
                /\ UNCHANGED <<cur, acks, unacked, subLog>>
    /\ UNCHANGED <<enableConsumer, ctxDone, declared, consumers, ready, msgs,
                   closed, setup, svcVars>>

\* a processMessage that rejects the delivery of a failed handler, so that
\* the broker puts the message back
HandlerReturns_Requeue ==
    /\ sub = "handling"
    /\ \E failed \in BOOLEAN :
        IF failed
        THEN /\ ready' = Requeue({m \in unacked : m.id = Deref(cur).tag}) \o ready
             /\ unacked' = {m \in unacked : m.id # Deref(cur).tag}
             /\ UNCHANGED <<acks, subLog>>
        ELSE /\ Ack(Deref(cur), <<>>)
             /\ UNCHANGED ready
    /\ sub' = "select"
    /\ cur' = {}
    /\ UNCHANGED <<enableConsumer, ctxDone, declared, consumers, msgs,
                   closed, handled, setup, svcVars>>

\* the event handler returns; failed: it returns an error.  Then the
\* deferred Ack of processMessage runs.
HandlerReturns ==
    /\ sub = "handling"
    /\ \E failed \in BOOLEAN :
        Ack(Deref(cur),
            IF failed
            THEN <<Line(Deref(cur), "error", "Failed to process " \o
                        (IF handled[Len(handled)].h = "HandleUserCreated" THEN "user.created"
                         ELSE IF handled[Len(handled)].h = "HandleUserUpdated"
                              THEN "user.updated"
                         ELSE "user.deleted"))>>
            ELSE <<>>)
    /\ sub' = "select"
    /\ cur' = {}
    /\ UNCHANGED <<enableConsumer, ctxDone, declared, consumers, ready, msgs,
                   closed, handled, setup, svcVars>>

\* the channel closes (RabbitMQSubscriber.Close, or the connection is lost):
\* the consumer is gone, the delivery channel is closed with what it held
\* dropped, and the broker puts the unacknowledged messages back
ChannelCloses ==
    /\ ~closed
    /\ closed' = TRUE
    /\ consumers' = 0
    /\ msgs' = <<>>
    /\ ready' = Requeue(unacked) \o ready
    /\ unacked' = {}
    /\ UNCHANGED <<enableConsumer, sub, ctxDone, declared, cur, handled, acks,
                   subLog, setup, svcVars>>

\* users as the publisher is handed them: after SanitizeForOutput, and with
\* the hash still in place
PublishedUsers == {SanitizeForOutput(SeedUser), SeedUser}

\* the bodies of the messages the queue may hold when the subscriber starts:
\* what the publisher writes, and what it never writes
Bodies ==
    {NilBody, EmptyBody, MalformedBody, JsonBody(JStr("user.created"))}
    \cup {MarshalEvent(UserEvent("user.created", u, 1)) : u \in PublishedUsers}
    \cup
    {MarshalEvent(UserEvent("user.updated", SanitizeForOutput(SeedUser), MaxClock)),
     MarshalEvent(DeletedEvent(SeedUser.id, MaxClock)),
     MarshalEvent([type |-> "user.suspended", timestamp |-> 2,
                   payload |-> [id |-> SeedUser.id]]),
     JsonBody(JObj([type |-> JStr("user.created"), timestamp |-> JTime(1),
                    payload |-> JStr("u0")])),
     JsonBody(JObj([type |-> JStr("user.deleted"), timestamp |-> JTime(1),
                    payload |-> JObj([id |-> JNum(7)])]))}

Queues ==
    UNION {[1..n -> Bodies] : n \in 0..MaxMsgs}

SubInit ==
    /\ ServiceInit
    /\ enableConsumer \in BOOLEAN
    /\ sub = "new"
    /\ ctxDone = FALSE
    /\ declared = FALSE
    /\ consumers = 0
    /\ \E q \in Queues :
        ready = [i \in DOMAIN q |-> [id |-> i, body |-> q[i], redelivered |-> FALSE]]
    /\ msgs = <<>>
    /\ unacked = {}
    /\ closed = FALSE
    /\ cur = {}
    /\ handled = <<>>
    /\ acks = <<>>
    /\ subLog = <<>>
    /\ setup = [calls |-> <<>>, err |-> NoErr]

SubNext ==
    \/ StartConsuming
    \/ Deliver
    \/ Cancel
    \/ LoopExit
    \/ Receive
    \/ ProcessMessage
    \/ HandlerReturns
    \/ ChannelCloses

SubSpec == SubInit /\ [][SubNext]_vars

\* ---------------------------------------------------------------- properties
\* the call in slot c has returned and its caller has not taken the result yet
Done(c) == pc[c] = "done"

\* a notification goroutine spawned by the call in slot c has not run yet
Spawned(c) == \E i \in DOMAIN tasks : tasks[i].owner = c

\* the last repository call the call in slot c made
LastCall(c) == trace[c][Len(trace[c])]

\* what User.Validate says about the arguments of a CreateUser
InputError(a) ==
    Validate([ZeroUser EXCEPT !.first_name = a.firstName, !.last_name = a.lastName,
                              !.nickname = a.nickname, !.password = a.password,
                              !.email = a.email, !.country = a.country])

\* C1: the payload of every user.created and user.updated event handed to
\* the broker carries no password, in any interleaving of the notification
\* goroutine with the caller's sanitize step.
C1_PayloadWithoutPassword ==
    \A i \in DOMAIN queue :
        queue[i].type \in {"user.created", "user.updated"}
            => "password" \notin DOMAIN queue[i].payload

\* C2: no two stored users share an email and no two share a nickname; a
\* write that the storage constraint rejects fails the call and stores no row.
C2_UniqueEmailAndNickname ==
    /\ \A r1, r2 \in users :
          r1 # r2 => r1.email # r2.email /\ r1.nickname # r2.nickname
    /\ \A c \in Calls :
          Done(c) /\ trace[c] # <<>> /\ LastCall(c).r = "conflict"
              => /\ ret[c].err # NoErr
                 /\ ret[c].user = {}
                 /\ op[c] = "CreateUser"
                        => \A r \in users : r.id # Deref(obj[c]).id

\* two calls passed the pre-check and the constraint rejected the later write
C2_Witness ==
    \E c \in Calls :
        /\ Done(c)
        /\ op[c] = "CreateUser"
        /\ trace[c] = <<[m |-> "GetByEmail", r |-> "notfound"],
                        [m |-> "GetByNickname", r |-> "notfound"],
                        [m |-> "Create", r |-> "conflict"]>>

\* C3: a CreateUser whose insert the uniqueness constraint rejected fails
\* with EmailExists or NicknameExists.
C3_RaceLoserSeesAlreadyExists ==
    \A c \in Calls :
        Done(c) /\ op[c] = "CreateUser" /\ trace[c] # <<>>
                /\ LastCall(c) = [m |-> "Create", r |-> "conflict"]
            => \/ Is(ret[c].err, ErrEmailAlreadyExists)
               \/ Is(ret[c].err, ErrNicknameAlreadyExists)

\* C4: a CreateUser whose email lookup finds a user returns EmailExists and
\* no user in that step, with the email lookup its only repository call, no
\* notification spawned and storage and the queue unchanged.
C4_EmailFound ==
    [][\A c \in Calls :
          (/\ pc[c] = "idle"
           /\ op'[c] = "CreateUser"
           /\ trace'[c] # <<>>
           /\ trace'[c][1] = [m |-> "GetByEmail", r |-> "found"])
          => /\ pc'[c] = "done"
             /\ ret'[c].err = ErrEmailAlreadyExists
             /\ ret'[c].user = {}
             /\ trace'[c] = <<[m |-> "GetByEmail", r |-> "found"]>>
             /\ users' = users
             /\ tasks' = tasks
             /\ queue' = queue]_vars

C4_Witness ==
    \E c \in Calls :
        /\ Done(c)
        /\ op[c] = "CreateUser"
        /\ trace[c] = <<[m |-> "GetByEmail", r |-> "found"]>>
        /\ ret[c].err = ErrEmailAlreadyExists

\* C5: CreateUser looks up the email first and the nickname second: a taken
\* email fails the call with EmailExists at the first lookup whether or not
\* the nickname is taken, and the nickname lookup, made only after the email
\* lookup found nothing, fails it with NicknameExists and no write when the
\* nickname is taken.
C5_LookupOrder ==
    [][\A c \in Calls :
          /\ (pc[c] = "idle" /\ op'[c] = "CreateUser" /\ trace'[c] # <<>>)
             => /\ Len(trace'[c]) = 1
                /\ trace'[c][1].m = "GetByEmail"
                /\ (/\ trace'[c][1].r # "error"
                    /\ \E r \in users : r.email = args'[c].email)
                   => /\ pc'[c] = "done"
                      /\ Is(ret'[c].err, ErrEmailAlreadyExists)
          /\ (pc[c] = "CreateUser_GetByNickname" /\ pc'[c] # pc[c])
             => /\ trace[c] = <<[m |-> "GetByEmail", r |-> "notfound"]>>
                /\ Len(trace'[c]) = 2
                /\ trace'[c][2].m = "GetByNickname"
                /\ (/\ trace'[c][2].r # "error"
                    /\ \E r \in users : r.nickname = args[c].nickname)
                   => /\ pc'[c] = "done"
                      /\ Is(ret'[c].err, ErrNicknameAlreadyExists)
                      /\ ret'[c].user = {}
                      /\ users' = users
                      /\ tasks' = tasks]_vars

C5_Witness ==
    \E c \in Calls :
        /\ Done(c)
        /\ op[c] = "CreateUser"
        /\ trace[c] = <<[m |-> "GetByEmail", r |-> "notfound"],
                        [m |-> "GetByNickname", r |-> "found"]>>
        /\ Is(ret[c].err, ErrNicknameAlreadyExists)
        /\ \E r \in users : r.nickname = args[c].nickname /\ r.email # args[c].email

\* C6: a CreateUser whose arguments fail validation returns an error of the
\* InvalidInput kind, the kind the boundary answers with bad request, and
\* makes no repository call and spawns no notification.
C6_ValidationIsInvalidInput ==
    \A c \in Calls :
        Done(c) /\ op[c] = "CreateUser" /\ InputError(args[c]) # NoErr
            => /\ Is(ret[c].err, ErrInvalidInput)
               /\ respondWithError(StatusInternalServerError, ret[c].err)
                      = StatusBadRequest
               /\ trace[c] = <<>>
               /\ ~Spawned(c)

\* C7: a successful CreateUser returns a user whose first name, last name,
\* nickname, email and country are the inputs and whose id is non-empty; no
\* two returned ids, no two stored ids and no two ids drawn by calls in
\* flight are equal.
C7_CreatedUserMatchesInput ==
    /\ \A c \in Calls :
          Done(c) /\ op[c] = "CreateUser" /\ ret[c].err = NoErr
              => \E u \in ret[c].user :
                    /\ ret[c].user = {u}
                    /\ u.first_name = args[c].firstName
                    /\ u.last_name = args[c].lastName
                    /\ u.nickname = args[c].nickname
                    /\ u.email = args[c].email
                    /\ u.country = args[c].country
                    /\ u.id # ""
    /\ \A i, j \in DOMAIN returnedIds : i # j => returnedIds[i] # returnedIds[j]
    /\ \A r1, r2 \in users : r1.id = r2.id => r1 = r2
    /\ \A c, d \in Calls :
          (c # d /\ op[c] = "CreateUser" /\ op[d] = "CreateUser"
                 /\ obj[c] # {} /\ obj[d] # {})
              => Deref(obj[c]).id # Deref(obj[d]).id

\* the second of two successful CreateUser calls has returned
C7_Witness ==
    \E c \in Calls :
        /\ Done(c)
        /\ op[c] = "CreateUser"
        /\ ret[c].err = NoErr
        /\ Len(returnedIds) = 2
        /\ \E r \in users : r.id = returnedIds[1]
        /\ \E r \in users : r.id = returnedIds[2]

\* C8: every user a call returns, alone or in a list, has an empty password.
C8_NoPasswordReturned ==
    \A c \in Calls :
        Done(c) => /\ \A u \in ret[c].user : u.password = ""
                   /\ \A i \in DOMAIN ret[c].list : ret[c].list[i].password = ""

\* CreateUser has returned a user whose stored row holds a password hash
C8_Witness ==
    \E c \in Calls :
        /\ Done(c)
        /\ op[c] = "CreateUser"
        /\ \E u \in ret[c].user : \E r \in users : r.id = u.id /\ r.password # ""

\* C9: GetUserByID with an empty id returns InvalidInput and no user without
\* a repository call; with an id no stored user has it returns NotFound and
\* no user, unless the lookup itself failed.
C9_GetUserByID ==
    \A c \in Calls :
        Done(c) /\ op[c] = "GetUserByID"
            => /\ args[c].id = ""
                  => /\ ret[c].err = ErrInvalidInput
                     /\ ret[c].user = {}
                     /\ trace[c] = <<>>
               /\ (/\ args[c].id # ""
                   /\ trace[c] # <<[m |-> "GetByID", r |-> "error"]>>
                   /\ \A r \in users : r.id # args[c].id)
                  => /\ Is(ret[c].err, ErrUserNotFound)
                     /\ ret[c].user = {}

C9_Witness ==
    \E c \in Calls :
        /\ Done(c)
        /\ op[c] = "GetUserByID"
        /\ args[c].id # ""
        /\ \A r \in users : r.id # args[c].id
        /\ trace[c] = <<[m |-> "GetByID", r |-> "notfound"]>>
        /\ Is(ret[c].err, ErrUserNotFound)

\* C10: a call that returned an error has no notification in flight, and a
\* notification is in flight only for a call whose last repository call was
\* a Create, Update or Delete that succeeded.
C10_NotifyOnlyAfterWrite ==
    /\ \A c \in Calls : Done(c) /\ ret[c].err # NoErr => ~Spawned(c)
    /\ \A i \in DOMAIN tasks :
          tasks[i].owner # 0
              => /\ trace[tasks[i].owner] # <<>>
                 /\ LastCall(tasks[i].owner).m \in {"Create", "Update", "Delete"}
                 /\ LastCall(tasks[i].owner).r = "ok"

\* a mutation whose persistence write failed has returned
C10_Witness ==
    \E c \in Calls :
        /\ Done(c)
        /\ ret[c].err # NoErr
        /\ trace[c] # <<>>
        /\ LastCall(c).m \in {"Create", "Update", "Delete"}
        /\ LastCall(c).r # "ok"
        /\ ~Spawned(c)


\* C11: a publish that fails only adds a line to the log: stored users,
\* the queue and every call's position and result are unchanged by it, and a
\* CreateUser or UpdateUser whose write succeeded returns success whatever
\* became of its notification.
C11_NotificationFailureOnlyLogged ==
    [][/\ log' # log
          => /\ Len(log') = Len(log) + 1
             /\ users' = users
             /\ queue' = queue
             /\ pc' = pc
             /\ ret' = ret
       /\ \A c \in Calls :
             (pc[c] \in {"CreateUser_Return", "UpdateUser_Return"} /\ pc'[c] # pc[c])
                 => /\ pc'[c] = "done"
                    /\ ret'[c].err = NoErr
                    /\ ret'[c].user # {}
                    /\ users' = users]_vars

\* the only call so far, a CreateUser, returned success and its user is
\* stored although the publish of its event failed
C11_Witness ==
    \E c \in Calls :
        /\ Done(c)
        /\ op[c] = "CreateUser"
        /\ ops = 1
        /\ ret[c].err = NoErr
        /\ log = <<"Error notifying user create:">>
        /\ queue = <<>>
        /\ \E u \in ret[c].user : \E r \in users : r.id = u.id

\* C12: once persistence has succeeded, CreateUser and UpdateUser return to
\* their caller even if no notification goroutine runs and no Publish ever
\* returns; DeleteUser returns in the step of its write.
C12_CallerNeverWaits ==
    \A c \in Calls :
        (pc[c] \in {"CreateUser_Return", "UpdateUser_Return", "DeleteUser_Delete"})
            ~> (pc[c] = "done" \/ crashed)

\* a mutation has returned success while its notification waits in Publish
C12_Witness ==
    \E c \in Calls :
        /\ Done(c)
        /\ op[c] \in {"CreateUser", "UpdateUser", "DeleteUser"}
        /\ ret[c].err = NoErr
        /\ \E i \in DOMAIN tasks : tasks[i].owner = c /\ tasks[i].at = "publishing"
\* C13: the context under which a notification is dispatched is never ended
\* by the cancellation of its caller's context: while the dispatch is in
\* Publish its context is live or ended by the notification timeout.
C13_DispatchContextIndependent ==
    \A i \in DOMAIN tasks :
        tasks[i].at = "publishing" => tasks[i].ctx \in {"live", "expired"}

\* C14: a dispatch whose timeout has fired is abandoned: whenever some
\* notification is outstanding with its timeout fired, eventually none is,
\* without the broker having to answer.
C14_DispatchBounded ==
    (\E i \in DOMAIN tasks : tasks[i].ctx = "expired")
        ~> ((\A i \in DOMAIN tasks : tasks[i].ctx # "expired") \/ crashed)
\* C15: a step starts at most one notification, and only the successful
\* write of a CreateUser, UpdateUser or DeleteUser that has started none yet
\* does, of type user.created, user.updated and user.deleted respectively; no
\* step of UpdatePassword starts one; the payload of user.deleted is the id
\* alone.
C15_OneNotificationPerMutation ==
    [][/\ Len(tasks') <= Len(tasks) + 1
       /\ Len(tasks') = Len(tasks) + 1
          => LET t == tasks'[Len(tasks')]
                 c == t.owner
             IN  /\ SubSeq(tasks', 1, Len(tasks)) = tasks
                 /\ c \in Calls
                 /\ pc[c] \in {"CreateUser_Create", "UpdateUser_Update",
                               "DeleteUser_Delete"}
                 /\ trace'[c][Len(trace'[c])].r = "ok"
                 /\ \A i \in DOMAIN tasks : tasks[i].owner # c
                 /\ t.type = IF op[c] = "CreateUser" THEN "user.created"
                             ELSE IF op[c] = "UpdateUser" THEN "user.updated"
                             ELSE "user.deleted"
                 /\ op[c] \in {"CreateUser", "UpdateUser", "DeleteUser"}
       /\ \A i \in DOMAIN tasks' :
             tasks'[i].owner \in Calls => op'[tasks'[i].owner] # "UpdatePassword"
       /\ \A i \in DOMAIN queue' :
             queue'[i].type = "user.deleted"
                 => DOMAIN queue'[i].payload = {"id"}]_vars

\* the only call so far, a DeleteUser of the seed user, has its one event in
\* the queue, carrying the id alone
C15_Witness ==
    /\ ops = 1
    /\ users = {}
    /\ tasks = <<>>
    /\ queue = <<[type |-> "user.deleted", timestamp |-> clock,
                  payload |-> [id |-> "u0"]]>>
\* C16: the successful write of an UpdateUser leaves every other user as it
\* was and changes, of the addressed user, only updated_at and the fields
\* the call supplied non-empty: a field supplied empty, the password, the id
\* and created_at keep their stored values.
C16_EmptyFieldsUnchanged ==
    [][\A c \in Calls :
          (/\ pc[c] = "UpdateUser_Update"
           /\ pc'[c] = "UpdateUser_Return")
          => /\ \A r \in users : \E n \in users' : n.id = r.id
             /\ \A n \in users' :
                   \E r \in users :
                      /\ r.id = n.id
                      /\ r.id # args[c].id => n = r
                      /\ r.id = args[c].id
                         => /\ n.password = r.password
                            /\ n.created_at = r.created_at
                            /\ args[c].firstName = "" => n.first_name = r.first_name
                            /\ args[c].lastName = "" => n.last_name = r.last_name
                            /\ args[c].nickname = "" => n.nickname = r.nickname
                            /\ args[c].email = "" => n.email = r.email
                            /\ args[c].country = "" => n.country = r.country]_vars
\* the call in slot c has made the repository call m
Made(c, m) == \E i \in DOMAIN trace[c] : trace[c][i].m = m

\* C17: an UpdateUser looks an email or nickname up only if it was supplied
\* non-empty and differs from the value of the user it fetched; a lookup that
\* finds a user ends the call with EmailExists / NicknameExists, no user, no
\* write and no notification; and the call fails with EmailExists /
\* NicknameExists in no other case.
C17_PreCheckOnlyForChangedFields ==
    \A c \in Calls :
        op[c] = "UpdateUser"
        => /\ (Made(c, "GetByEmail") /\ ~Made(c, "Update"))
              => /\ args[c].email # ""
                 /\ args[c].email # Deref(obj[c]).email
           /\ (Made(c, "GetByNickname") /\ ~Made(c, "Update"))
              => /\ args[c].nickname # ""
                 /\ args[c].nickname # Deref(obj[c]).nickname
           /\ (trace[c] # <<>> /\ LastCall(c).r = "found"
                               /\ LastCall(c).m \in {"GetByEmail", "GetByNickname"})
              => /\ Done(c)
                 /\ ret[c].user = {}
                 /\ ~Spawned(c)
                 /\ ~Made(c, "Update")
                 /\ LastCall(c).m = "GetByEmail" => Is(ret[c].err, ErrEmailAlreadyExists)
                 /\ LastCall(c).m = "GetByNickname"
                        => Is(ret[c].err, ErrNicknameAlreadyExists)
           /\ (Done(c) /\ Is(ret[c].err, ErrEmailAlreadyExists))
              => LastCall(c) = [m |-> "GetByEmail", r |-> "found"]
           /\ (Done(c) /\ Is(ret[c].err, ErrNicknameAlreadyExists))
              => LastCall(c) = [m |-> "GetByNickname", r |-> "found"]

\* an UpdateUser that supplied the user's own email and nickname succeeded
\* without a lookup of either
C17_Witness ==
    \E c \in Calls :
        /\ Done(c)
        /\ op[c] = "UpdateUser"
        /\ ret[c].err = NoErr
        /\ args[c].email # ""
        /\ \E u \in ret[c].user : u.email = args[c].email
        /\ trace[c] = <<[m |-> "GetByID", r |-> "found"], [m |-> "Update", r |-> "ok"]>>

\* C18: an UpdatePassword whose new password is empty or shorter than 8
\* characters fails with InvalidInput and makes no repository call.
C18_PasswordPolicyBeforeFetch ==
    \A c \in Calls :
        (Done(c) /\ op[c] = "UpdatePassword"
                 /\ ValidatePassword(args[c].password) # NoErr)
        => /\ Is(ret[c].err, ErrInvalidInput)
           /\ trace[c] = <<>>

\* C19: the write of a successful UpdatePassword replaces the row of the
\* addressed user by one that differs in password and updated_at only (the
\* new updated_at is a time read no later than the write) and
\* leaves every other row as it is; a step of an UpdatePassword that ends in an
\* error, and its fetch, leave the table as it is.
C19_PasswordUpdateFrame ==
    [][\A c \in Calls :
        /\ (pc[c] = "UpdatePassword_Update" /\ pc'[c] # pc[c])
           => IF ret'[c].err = NoErr
              THEN \E r \in users, now \in 1..clock' :
                     /\ r.id = args[c].id
                     /\ users' = (users \ {r})
                                 \cup {[r EXCEPT !.password = HashPassword(args[c].password),
                                                 !.updated_at = now]}
              ELSE users' = users
        /\ (pc[c] # "UpdatePassword_Update" /\ pc'[c] # pc[c]
                                             /\ op'[c] = "UpdatePassword")
           => users' = users]_vars

\* an UpdatePassword succeeded while two users were stored: the addressed one
\* has the new hash and the new time, the other one its old time
C19_Witness ==
    \E c \in Calls :
        /\ Done(c)
        /\ op[c] = "UpdatePassword"
        /\ ret[c].err = NoErr
        /\ args[c].password = "correcthorsebattery"
        /\ \E r, q \in users :
            /\ r.id = args[c].id
            /\ r.password = HashPassword("correcthorsebattery")
            /\ r.updated_at = MaxClock
            /\ q.id # r.id
            /\ q.password = HashPassword("supersecurepassword")

\* C20: every stored password is the hash of a password that passes the
\* policy and is no supplied password itself, and a step that
\* stores a password (a new row, or a row whose password changes) stores the
\* hash of the password supplied to the CreateUser or UpdatePassword making
\* that write.
C20_StoredPasswordIsHash ==
    /\ [](\A r \in users :
            /\ \E p \in Passwords : /\ ValidatePassword(p) = NoErr
                                     /\ r.password = HashPassword(p)
            /\ r.password \notin Passwords)
    /\ [][\A r \in users' :
            (\A q \in users : q.id = r.id => q.password # r.password)
            => \E c \in Calls :
                 /\ pc[c] \in {"CreateUser_Create", "UpdatePassword_Update"}
                 /\ pc'[c] # pc[c]
                 /\ ret'[c].err = NoErr \/ pc'[c] # "done"
                 /\ r.password = HashPassword(args[c].password)
                 /\ r.password # args[c].password]_vars

\* the password of the seed user was replaced by the hash of the one supplied
\* to a successful UpdatePassword
C20_Witness ==
    \E c \in Calls :
        /\ Done(c)
        /\ op[c] = "UpdatePassword"
        /\ ret[c].err = NoErr
        /\ args[c].id = "u0"
        /\ \E r \in users :
            /\ r.id = "u0"
            /\ r.password = BcryptPrefix \o args[c].password
            /\ r.password # SeedUser.password

\* C21: a DeleteUser whose fetch finds no row ends there with NotFound, the
\* table and the notifications untouched; the write of a successful DeleteUser
\* removes exactly the row of that id, after which no row holds its id, email
\* or nickname; and a GetUserByID entered while the notification of a
\* successful DeleteUser of its id is outstanding finds nothing and fails with
\* NotFound.
C21_DeleteAbsentAndHardDelete ==
    [][\A c \in Calls :
        /\ (pc[c] = "idle" /\ op'[c] = "DeleteUser"
                /\ trace'[c] = <<[m |-> "GetByID", r |-> "notfound"]>>)
           => /\ pc'[c] = "done"
              /\ Is(ret'[c].err, ErrUserNotFound)
              /\ users' = users
              /\ tasks' = tasks
        /\ (pc[c] = "DeleteUser_Delete" /\ pc'[c] = "done" /\ ret'[c].err = NoErr)
           => \E r \in users :
                /\ r.id = args[c].id
                /\ users' = users \ {r}
                /\ \A q \in users' : /\ q.id # r.id
                                     /\ q.email # r.email
                                     /\ q.nickname # r.nickname
        /\ (pc[c] = "idle" /\ op'[c] = "GetUserByID"
                /\ trace'[c] # <<[m |-> "GetByID", r |-> "error"]>>
                /\ \E i \in DOMAIN tasks : /\ tasks[i].type = "user.deleted"
                                            /\ tasks[i].id = args'[c].id)
           => /\ trace'[c] = <<[m |-> "GetByID", r |-> "notfound"]>>
              /\ ret'[c].user = {}
              /\ Is(ret'[c].err, ErrUserNotFound)]_vars

\* the seed user was deleted (its notification is outstanding), and a
\* CreateUser with the email and nickname of the deleted user went through
\* both lookups and stored a new user
C21_Witness ==
    \E d \in Calls :
        /\ \E i \in DOMAIN tasks : /\ tasks[i].type = "user.deleted"
                                    /\ tasks[i].id = SeedUser.id
        /\ Done(d) /\ op[d] = "CreateUser" /\ ret[d].err = NoErr
        /\ args[d].email = SeedUser.email
        /\ args[d].nickname = SeedUser.nickname
        /\ trace[d] = <<[m |-> "GetByEmail", r |-> "notfound"],
                        [m |-> "GetByNickname", r |-> "notfound"],
                        [m |-> "Create", r |-> "ok"]>>
        /\ \A r \in users : r.id # SeedUser.id

\* C22: a GetUserByID, UpdateUser, UpdatePassword or DeleteUser tests as
\* NotFound exactly when its last repository call was a fetch that found no row
\* or a write that affected no row.
C22_NotFoundSurvivesWrapping ==
    \A c \in Calls :
        (Done(c) /\ op[c] \in {"GetUserByID", "UpdateUser", "UpdatePassword", "DeleteUser"})
        => (Is(ret[c].err, ErrUserNotFound)
            <=> /\ trace[c] # <<>>
                /\ LastCall(c).m \in {"GetByID", "Update", "UpdatePassword", "Delete"}
                /\ LastCall(c).r \in {"notfound", "norows"})

\* an UpdatePassword whose fetch found the user and whose write affected no
\* row (the user was deleted in between) returned with two wrappers around
\* the sentinel
C22_Witness ==
    \E c \in Calls :
        /\ Done(c)
        /\ op[c] = "UpdatePassword"
        /\ trace[c] = <<[m |-> "GetByID", r |-> "found"],
                        [m |-> "UpdatePassword", r |-> "norows"]>>
        /\ Len(ret[c].err) = 2
        /\ respondWithError(StatusInternalServerError, ret[c].err) = StatusNotFound

\* the largest page size the list endpoint accepts
MaxPageSize == 100

\* C23: a ListUsers that returned a page ran its query for page 1 when the
\* page number was <= 0, with the default page size when the page size was
\* <= 0 and with a page size of 100 when it was above 100, and the page holds
\* no more users than that size.
C23_PaginationCoerced ==
    \A c \in Calls :
        (Done(c) /\ op[c] = "ListUsers" /\ ret[c].err = NoErr)
        => LET p == Paginate(args[c].page, args[c].pageSize)
               size == IF args[c].pageSize <= 0 THEN DefaultPageSize
                       ELSE IF args[c].pageSize > MaxPageSize THEN MaxPageSize
                       ELSE args[c].pageSize
           IN  /\ p.page = (IF args[c].page <= 0 THEN 1 ELSE args[c].page)
               /\ p.limit = size
               /\ p.offset = (p.page - 1) * size
               /\ Len(ret[c].list) <= size

\* part occurs in s, letters compared without regard to case
Contains(s, part) ==
    \E i \in 1..(Len(s) + 1) : \E j \in (i - 1)..Len(s) :
        Lower(SubSeq(s, i, j)) = Lower(part)

\* C24: a ListUsers that returned a page returns, as total, the number of
\* stored users that contain every supplied non-empty filter value as a
\* case-insensitive substring of the corresponding field, and, as list, the
\* requested page of exactly those users.
C24_FiltersMatchSubstrings ==
    \A c \in Calls :
        (Done(c) /\ op[c] = "ListUsers" /\ ret[c].err = NoErr)
        => LET a == args[c]
               match == {r \in users :
                           /\ a.country # "" => Contains(r.country, a.country)
                           /\ a.email # "" => Contains(r.email, a.email)
                           /\ a.nickname # "" => Contains(r.nickname, a.nickname)
                           /\ a.firstName # "" => Contains(r.first_name, a.firstName)
                           /\ a.lastName # "" => Contains(r.last_name, a.lastName)}
               p == Paginate(a.page, a.pageSize)
               n == Cardinality(match) - p.offset
           IN  /\ ret[c].total = Cardinality(match)
               /\ \A i \in DOMAIN ret[c].list :
                     \E r \in match : ret[c].list[i] = SanitizeForOutput(Scan(r))
               /\ Len(ret[c].list) = (IF n < 0 THEN 0 ELSE Min(n, p.limit))

\* the Ack calls made for the delivery with tag t
AcksOf(t) == {i \in DOMAIN acks : acks[i].d.tag = t}

\* the handler invocations made for the delivery with tag t
HandledOf(t) == {i \in DOMAIN handled : handled[i].d.tag = t}

\* d is a delivery of the broker whose body has bytes that do not decode
\* as an event
Undecodable(d) ==
    /\ d.tag # 0
    /\ d.body.form \notin {"nil", "empty"}
    /\ UnmarshalEvent(d.body).err # NoErr

\* C25: for a delivery whose non-empty body does not decode as an event the
\* failure is logged when processMessage is done with it, no handler is
\* invoked, no Ack is ever called, and while the channel is open the broker
\* keeps it as unacknowledged.
C25_DecodeFailureNotAcked ==
    /\ \A i \in DOMAIN acks : ~Undecodable(acks[i].d)
    /\ \A i \in DOMAIN handled : ~Undecodable(handled[i].d)
    /\ \A i \in DOMAIN subLog :
          subLog[i].msg = "Failed to decode message"
          => (closed \/ \E m \in unacked : m.id = subLog[i].tag)

\* d is a delivery of the broker whose body is empty
EmptyDelivery(d) == d.tag # 0 /\ d.body.form \in {"nil", "empty"}

\* C26: processMessage of a delivery with an empty body calls Ack for it once,
\* in the step that takes it up, invokes no handler and is back at the
\* select; on an open channel the Ack succeeds and the message is neither
\* unacknowledged nor back in the queue; and such a delivery never has a
\* second Ack or a handler invocation.
C26_EmptyBodyAcked ==
    /\ [](\A i \in DOMAIN acks :
             EmptyDelivery(acks[i].d) => AcksOf(acks[i].d.tag) = {i})
    /\ [](\A i \in DOMAIN handled : ~EmptyDelivery(handled[i].d))
    /\ [][(sub = "process" /\ sub' # "process" /\ EmptyDelivery(Deref(cur)))
          => LET d == Deref(cur)
             IN  /\ sub' = "select"
                 /\ handled' = handled
                 /\ \E r \in {"ok", "error"} : acks' = Append(acks, [d |-> d, r |-> r])
                 /\ ~closed
                    => /\ acks' = Append(acks, [d |-> d, r |-> "ok"])
                       /\ \A m \in unacked' : m.id # d.tag
                       /\ \A i \in DOMAIN ready' : ready'[i].id # d.tag]_vars

\* both forms of an empty body were taken up and acknowledged, one after the
\* other, and no handler ran
C26_Witness ==
    /\ sub = "select"
    /\ ~closed
    /\ handled = <<>>
    /\ Len(acks) = 2
    /\ acks[1].r = "ok" /\ acks[2].r = "ok"
    /\ {acks[1].d.body, acks[2].d.body} = {NilBody, EmptyBody}
    /\ ready = <<>> /\ unacked = {}

\* d is a delivery of the broker that decodes as an event whose type has no
\* case in the switch
UnknownType(d) ==
    /\ d.tag # 0
    /\ d.body # NilBody
    /\ UnmarshalEvent(d.body).err = NoErr
    /\ UnmarshalEvent(d.body).event.type
           \notin {"user.created", "user.updated", "user.deleted"}

\* C27: processMessage of a well-formed event of an unknown type logs the
\* warning, calls Ack once, invokes no handler and is back at the select, from
\* where the next delivery is received; such a delivery never reaches a
\* handler.
C27_UnknownTypeAcked ==
    /\ [](\A i \in DOMAIN handled : ~UnknownType(handled[i].d))
    /\ [][(sub = "process" /\ sub' # "process" /\ UnknownType(Deref(cur)))
          => LET d == Deref(cur)
             IN  /\ sub' = "select"
                 /\ handled' = handled
                 /\ \E r \in {"ok", "error"} : acks' = Append(acks, [d |-> d, r |-> r])
                 /\ ~closed => acks' = Append(acks, [d |-> d, r |-> "ok"])
                 /\ \E i \in DOMAIN subLog' :
                       subLog'[i] = Line(d, "warn", "Unknown event type")]_vars

\* the first delivery was an event of an unknown type: it was logged and
\* acknowledged, and the delivery after it reached its handler
C27_Witness ==
    /\ Len(acks) >= 1
    /\ UnknownType(acks[1].d)
    /\ acks[1].r = "ok"
    /\ subLog # <<>>
    /\ subLog[1] = Line(acks[1].d, "warn", "Unknown event type")
    /\ Len(handled) = 1
    /\ handled[1].d.tag = 2

\* C28: a delivery is handed to a handler at most once and has at most one
\* Ack; while its handler runs it has none; when the handler returns, with or
\* without an error, Ack is called for it, and on an open channel the Ack
\* succeeds, the message leaves the unacknowledged ones and the queue is as
\* it was (nothing is put back).
C28_AtMostOnceProcessing ==
    /\ [](\A i \in DOMAIN handled :
             /\ HandledOf(handled[i].d.tag) = {i}
             /\ Cardinality(AcksOf(handled[i].d.tag)) <= 1)
    /\ [](sub = "handling" => AcksOf(Deref(cur).tag) = {})
    /\ [][(sub = "handling" /\ sub' # "handling")
          => LET d == Deref(cur)
             IN  /\ sub' = "select"
                 /\ handled' = handled
                 /\ \E r \in {"ok", "error"} : acks' = Append(acks, [d |-> d, r |-> r])
                 /\ ~closed
                    => /\ acks' = Append(acks, [d |-> d, r |-> "ok"])
                       /\ \A m \in unacked' : m.id # d.tag
                       /\ ready' = ready]_vars

\* a handler returned an error: the error is logged, the delivery has its one
\* successful Ack and is gone from the broker
C28_Witness ==
    /\ ~closed
    /\ Len(handled) = 1
    /\ Len(acks) = 1
    /\ acks[1] = [d |-> handled[1].d, r |-> "ok"]
    /\ \E i \in DOMAIN subLog :
          subLog[i] = Line(handled[1].d, "error", "Failed to process user.created")
    /\ unacked = {}
    /\ ready = <<>>

\* C29: with the consumer disabled StartConsuming declares the queue and
\* registers no consumer: nothing is sent to this service, every message
\* stays in the queue.
C29_DisabledRegistersNoConsumer ==
    ~enableConsumer
    => /\ sub = "disabled" => declared
       /\ consumers = 0
       /\ msgs = <<>>
       /\ unacked = {}

\* C30: once the ctx is cancelled the loop receives no further delivery and
\* starts no processMessage.
C30_NoReceiveAfterCancel ==
    [][(ctxDone /\ sub = "select") => sub' \in {"select", "stopped"}]_vars

\* C31: a delivery whose body is the user.created event NotifyUserCreated
\* publishes for a user is handed to HandleUserCreated, and to no other
\* handler, with a user of the same id; the user.deleted event
\* NotifyUserDeleted publishes for an id is handed to HandleUserDeleted with
\* that id.
C31_RoundTrip ==
    [][\A t \in 1..MaxClock :
        /\ \A u \in PublishedUsers :
            (/\ sub = "process" /\ sub' # "process"
             /\ Deref(cur).body = MarshalEvent(UserEvent("user.created", u, t)))
            => /\ sub' = "handling"
               /\ \E call \in {handled'[Len(handled')]} :
                    /\ handled' = Append(handled, call)
                    /\ call.h = "HandleUserCreated"
                    /\ call.d = Deref(cur)
                    /\ call.user.id = u.id
        /\ \A id \in IdInputs \ {""} :
            (/\ sub = "process" /\ sub' # "process"
             /\ Deref(cur).body = MarshalEvent(DeletedEvent(id, t)))
            => /\ sub' = "handling"
               /\ \E call \in {handled'[Len(handled')]} :
                    /\ handled' = Append(handled, call)
                    /\ call.h = "HandleUserDeleted"
                    /\ call.d = Deref(cur)
                    /\ call.id = id]_vars

\* the user.created event of the seed user and the user.deleted event of its
\* id were consumed: each reached its handler with the id "u0"
C31_Witness ==
    /\ Len(handled) = 2
    /\ handled[1].h = "HandleUserCreated"
    /\ handled[1].d.body = MarshalEvent(UserEvent("user.created", SeedUser, 1))
    /\ handled[1].user.id = SeedUser.id
    /\ handled[2].h = "HandleUserDeleted"
    /\ handled[2].d.body = MarshalEvent(DeletedEvent(SeedUser.id, MaxClock))
    /\ handled[2].id = SeedUser.id

\* C32: the id and created_at of a stored row never change, and a
\* successful UpdateUser or UpdatePassword leaves every row with an
\* updated_at that is not earlier than the one it had.
C32_IdentityFixedUpdatedAtAdvances ==
    [][/\ \A r \in users : \A n \in users' :
            n.id = r.id => n.created_at = r.created_at
       /\ \A c \in Calls :
            (/\ pc[c] \in {"UpdateUser_Update", "UpdatePassword_Update"}
             /\ Len(trace'[c]) = Len(trace[c]) + 1
             /\ LastCall(c)' \in {[m |-> "Update", r |-> "ok"],
                                  [m |-> "UpdatePassword", r |-> "ok"]})
            => \A r \in users : \E n \in users' :
                    /\ n.id = r.id
                    /\ n.created_at = r.created_at
                    /\ n.updated_at >= r.updated_at]_vars

\* C33: StartConsuming declares the durable queue, then sets the prefetch
\* count to 1, then registers the consumer without auto-ack; when one of
\* these calls fails it makes no further call, returns an error whose text
\* names the failed step, and no loop ever runs.  The loop holds at most one
\* delivery, the broker has at most one delivery outstanding, and a delivery
\* is taken only at the select, after processMessage has returned from every
\* earlier one.
C33_SetupOrderAndOneAtATime ==
    /\ [](/\ \E n \in 0..Len(SetupSteps) : setup.calls = SubSeq(SetupSteps, 1, n)
          /\ \A i \in DOMAIN setup.calls :
                /\ setup.calls[i].m = "QueueDeclare" => setup.calls[i].flag
                /\ setup.calls[i].m = "Qos" => setup.calls[i].n = 1
                /\ setup.calls[i].m = "Consume" => ~setup.calls[i].flag
          /\ sub # "new" =>
                IF setup.err = NoErr
                THEN /\ Len(setup.calls) = 3
                     /\ sub # "failed"
                ELSE /\ setup.calls # <<>>
                     /\ setup.err[1].msg = setup.calls[Len(setup.calls)].msg
                     /\ sub = "failed"
                     /\ cur = {} /\ handled = <<>> /\ acks = <<>>
          /\ Cardinality(cur) <= 1
          /\ Cardinality(unacked) <= 1
          /\ Len(msgs) <= 1)
    /\ [][cur' # cur /\ cur' # {}
          => /\ sub = "select" /\ cur = {}
             /\ \A i \in DOMAIN handled :
                    \E j \in DOMAIN acks : acks[j].d = handled[i].d]_vars

\* after a complete setup the loop has worked through two deliveries, one
\* after the other
C33_Witness ==
    /\ setup = [calls |-> SetupSteps, err |-> NoErr]
    /\ Len(acks) = 2
    /\ acks[1].d.tag = 1 /\ acks[2].d.tag = 2
    /\ Len(handled) = 2
    /\ sub = "select"

\* C34: a notification call hands channel.Publish one publishing, of its one
\* event, addressed to the default exchange with the queue name as routing
\* key and marked persistent; the call ends with that one attempt: it either
\* put the event on the queue and reported nothing, or left the queue alone
\* and reported the failure, and the publishing is never tried again.
C34_OnePersistentPublish ==
    [][/\ \A i \in DOMAIN tasks :
            /\ (tasks[i].at = "spawned" /\ Len(tasks') = Len(tasks)
                /\ tasks'[i].at = "publishing")
               => /\ tasks'[i].body =
                        {[exchange |-> "", key |-> QueueName, mandatory |-> FALSE,
                          immediate |-> FALSE, contentType |-> "application/json",
                          deliveryMode |-> Persistent,
                          body |-> Deref(tasks'[i].body).body]}
                  /\ Deref(tasks'[i].body).body.type = tasks[i].type
                  /\ queue' = queue /\ log' = log
            /\ (tasks[i].at = "publishing" /\ Len(tasks') = Len(tasks))
               => /\ tasks'[i].at = "publishing"
                  /\ tasks'[i].body = tasks[i].body
                  /\ queue' = queue /\ log' = log
       /\ Len(tasks') < Len(tasks)
          => \E i \in DOMAIN tasks :
                /\ tasks[i].at = "publishing"
                /\ tasks' = Remove(tasks, i)
                /\ \/ /\ queue' = Append(queue, Deref(tasks[i].body).body)
                      /\ log' = log
                   \/ /\ queue' = queue
                      /\ log' = Append(log, FailureLine(tasks[i].type))
       /\ Len(tasks') >= Len(tasks) => queue' = queue]_vars

\* of two notifications one was published and one failed: the queue holds
\* one event, one failure was reported and no publishing is left
C34_Witness ==
    /\ Len(queue) = 1
    /\ Len(log) = 1
    /\ tasks = <<>>
    /\ ops = 2

\* C35: when two UpdateUser calls on the same user that supply disjoint,
\* non-empty sets of fields are in progress together and both have written successfully, the
\* stored user carries every value either of them supplied.
C35_DisjointUpdatesBothStored ==
    \A c1 \in Calls : \A c2 \in Calls \ {c1} :
        LET a == args[c1]
            b == args[c2]
            Wrote(c) == /\ op[c] = "UpdateUser"
                        /\ pc[c] \in {"UpdateUser_Return", "done"}
                        /\ trace[c] # <<>>
                        /\ LastCall(c) = [m |-> "Update", r |-> "ok"]
            Stored(x, r) == /\ x.firstName # "" => r.first_name = x.firstName
                            /\ x.lastName # "" => r.last_name = x.lastName
                            /\ x.nickname # "" => r.nickname = x.nickname
                            /\ x.email # "" => r.email = x.email
                            /\ x.country # "" => r.country = x.country
        IN  (/\ Wrote(c1) /\ Wrote(c2)
             /\ a.id = b.id
             /\ a # [NoArgs EXCEPT !.id = a.id]
             /\ b # [NoArgs EXCEPT !.id = b.id]
             /\ a.firstName = "" \/ b.firstName = ""
             /\ a.lastName = "" \/ b.lastName = ""
             /\ a.nickname = "" \/ b.nickname = ""
             /\ a.email = "" \/ b.email = ""
             /\ a.country = "" \/ b.country = "")
            => \A r \in users : r.id = a.id => Stored(a, r) /\ Stored(b, r)

\* C36: of the DeleteUser calls on one id, the write of exactly one finds the
\* row: it removes it, returns success and spawns the one user.deleted
\* notification of that id; a write that affects no row fails with NotFound,
\* changes nothing and spawns nothing, and the notification of the call that
\* won is then already out.  No id ever has two user.deleted notifications.
C36_OneDeleteWins ==
    /\ [](\A id \in IdInputs \ {""} :
            Cardinality({i \in DOMAIN tasks :
                            tasks[i].type = "user.deleted" /\ tasks[i].id = id})
            + Cardinality({j \in DOMAIN queue :
                            /\ queue[j].type = "user.deleted"
                            /\ queue[j].payload.id = id}) <= 1)
    /\ [][\A c \in Calls :
            (pc[c] = "DeleteUser_Delete" /\ pc'[c] = "done")
            => IF ret'[c].err = NoErr
               THEN /\ \E r \in users : r.id = args[c].id
                    /\ \A r \in users' : r.id # args[c].id
                    /\ Len(tasks') = Len(tasks) + 1
                    /\ tasks'[Len(tasks')].type = "user.deleted"
                    /\ tasks'[Len(tasks')].id = args[c].id
               ELSE /\ tasks' = tasks
                    /\ users' = users
                    /\ LastCall(c)'.r = "norows"
                       => /\ Is(ret'[c].err, ErrUserNotFound)
                          /\ \A r \in users : r.id # args[c].id
                          /\ \/ \E i \in DOMAIN tasks :
                                    /\ tasks[i].type = "user.deleted"
                                    /\ tasks[i].id = args[c].id
                             \/ \E j \in DOMAIN queue :
                                    /\ queue[j].type = "user.deleted"
                                    /\ queue[j].payload.id = args[c].id
                             \/ log # <<>>]_vars

\* two DeleteUser calls on the seed user fetched it; one has deleted it and
\* its notification is out, the other has just failed with NotFound on its
\* write
C36_Witness ==
    \E c \in Calls :
        /\ Done(c) /\ op[c] = "DeleteUser" /\ args[c].id = SeedUser.id
        /\ trace[c] = <<[m |-> "GetByID", r |-> "found"],
                        [m |-> "Delete", r |-> "norows"]>>
        /\ Is(ret[c].err, ErrUserNotFound)
        /\ Len(tasks) = 1
        /\ tasks[1].type = "user.deleted" /\ tasks[1].id = SeedUser.id
        /\ tasks[1].owner # c
        /\ users = {}

\* C37: the write of an UpdateUser or UpdatePassword that comes after the
\* row of its id was deleted affects no row: the call fails with NotFound,
\* the table is as it was, so that the id stays absent, and no notification
\* is spawned.  No step of an update adds an id to the table.
C37_NoResurrection ==
    [][\A c \in Calls :
        (/\ pc[c] \in {"UpdateUser_Update", "UpdatePassword_Update"}
         /\ pc'[c] # pc[c])
        => /\ {r.id : r \in users'} \subseteq {r.id : r \in users}
           /\ (/\ \A r \in users : r.id # args[c].id
               /\ Len(trace'[c]) = Len(trace[c]) + 1
               /\ LastCall(c)'.r # "error")
              => /\ LastCall(c)'.r = "norows"
                 /\ pc'[c] = "done"
                 /\ Is(ret'[c].err, ErrUserNotFound)
                 /\ users' = users
                 /\ tasks' = tasks]_vars

\* an UpdateUser fetched the seed user, a DeleteUser then removed it (its
\* notification is out), and the write of the update has just failed with
\* NotFound: the table is empty and no user.updated notification exists
C37_Witness ==
    \E c \in Calls :
        /\ Done(c) /\ op[c] = "UpdateUser" /\ args[c].id = SeedUser.id
        /\ trace[c] = <<[m |-> "GetByID", r |-> "found"],
                        [m |-> "Update", r |-> "norows"]>>
        /\ Is(ret[c].err, ErrUserNotFound)
        /\ \E i \in DOMAIN tasks : /\ tasks[i].type = "user.deleted"
                                    /\ tasks[i].id = SeedUser.id
        /\ \A i \in DOMAIN tasks : tasks[i].type # "user.updated"
        /\ users = {}

\* C38: with calls made one after the other, the events of one user stand on
\* the queue in the order of the mutations: no event of the user follows its
\* user.deleted, and its user.created follows no other event of the user.
C38_EventsInMutationOrder ==
    \A j \in DOMAIN queue : \A k \in DOMAIN queue :
        (j < k /\ queue[j].payload.id = queue[k].payload.id)
        => /\ queue[j].type # "user.deleted"
           /\ queue[k].type # "user.created"

C40_LoopEndsOnlyByCancel ==
    /\ [](sub = "stopped" => ctxDone)
    /\ [][/\ (sub \in {"select", "process", "handling"}
              /\ sub' \notin {"select", "process", "handling"})
             => (sub = "select" /\ ctxDone /\ sub' = "stopped")
          /\ (closed /\ msgs = <<>> /\ sub = "select" /\ sub' = "process")
             => cur' = {ZeroDelivery}
          /\ (sub = "process" /\ cur = {ZeroDelivery} /\ sub' # "process")
             => /\ sub' = "select"
                /\ handled' = handled
                /\ acks' = Append(acks, [d |-> ZeroDelivery, r |-> "error"])
                /\ subLog' = subLog \o
                     <<Line(ZeroDelivery, "error", "Received empty message"),
                       Line(ZeroDelivery, "error",
                            "Error acknowledging empty message")>>]_vars

\* the channel was closed with the loop running and the ctx not cancelled:
\* the loop has gone round twice on the zero Delivery and waits at its select
C40_Witness ==
    /\ closed /\ ~ctxDone
    /\ sub = "select"
    /\ handled = <<>>
    /\ acks = <<[d |-> ZeroDelivery, r |-> "error"],
                [d |-> ZeroDelivery, r |-> "error"]>>

====
